---- MODULE Spec2Model ----
(***************************************************************************)
(* Model of the trading bot: the RiskManager (risk_manager.py), the        *)
(* orchestrator TradingBot (trading_bot.py) and the exchange gateway seen  *)
(* at its interface (exchange_interface.py).                               *)
(*                                                                         *)
(* Python floats are modelled as exact rationals <<n, d>> in lowest terms  *)
(* with d > 0.  Every await on the exchange gateway is a suspension point  *)
(* of a coroutine; the code between two awaits runs atomically on the      *)
(* asyncio event loop and is one step of the model.                        *)
(***************************************************************************)
EXTENDS Integers, Sequences, FiniteSets, TLC

VARIABLES
    config,           \* risk_management section handed to RiskManager.__init__
    rm,               \* the RiskManager object's fields
    today,            \* datetime.now().date(), as a day number
    is_running,       \* TradingBot.is_running
    trading_enabled,  \* TradingBot.trading_enabled
    active_exchange,  \* ExchangeManager.active_exchange is not None
    active_strategy,  \* StrategyManager.active_strategy is not None
    tasks,            \* coroutines in flight, each suspended at an await
    started,          \* TradingBot.start() has been called
    nOrders,          \* number of create_order calls issued so far
    last              \* the operation performed by the last step, with its inputs and result

vars == <<config, rm, today, is_running, trading_enabled, active_exchange,
          active_strategy, tasks, started, nOrders, last>>

(***************************************************************************)
(* Exact rational arithmetic.                                              *)
(***************************************************************************)
Abs(x) == IF x < 0 THEN -x ELSE x

RECURSIVE GCD(_, _)
GCD(a, b) == IF b = 0 THEN a ELSE GCD(b, a % b)

R(n, d) ==
    LET s == IF d < 0 THEN -1 ELSE 1
        g == GCD(Abs(n), Abs(d))
    IN  <<(s * n) \div g, (s * d) \div g>>

Zero == <<0, 1>>
One == <<1, 1>>
RInt(n) == <<n, 1>>
RAdd(a, b) == R(a[1] * b[2] + b[1] * a[2], a[2] * b[2])
RSub(a, b) == R(a[1] * b[2] - b[1] * a[2], a[2] * b[2])
RMul(a, b) == R(a[1] * b[1], a[2] * b[2])
RDiv(a, b) == R(a[1] * b[2], a[2] * b[1])
RNeg(a) == <<-a[1], a[2]>>
RLt(a, b) == a[1] * b[2] < b[1] * a[2]
RLe(a, b) == a[1] * b[2] <= b[1] * a[2]
RMin(a, b) == IF RLe(a, b) THEN a ELSE b
RMax(a, b) == IF RLe(a, b) THEN b ELSE a

RECURSIVE RSum(_)
RSum(s) == IF s = <<>> THEN Zero ELSE RAdd(Head(s), RSum(Tail(s)))

(***************************************************************************)
(* Bounds of the model.                                                    *)
(***************************************************************************)
MaxDay == 1        \* the calendar date advances at most this many times
MaxTasks == 2      \* coroutines that may be in flight at once
MaxOrders == 2     \* create_order calls over a behaviour
MaxOpens == 2      \* add_position calls per day
MaxTrades == 2     \* closed trades kept in the history

(***************************************************************************)
(* Configuration.  DefaultRisk holds the defaults of the config.get calls  *)
(* of risk_manager.py.                                                     *)
(***************************************************************************)
DefaultRisk ==
    [ position_size_percent    |-> R(1, 10),
      min_trade_amount         |-> RInt(10),
      max_position_size        |-> RInt(1000),
      max_daily_trades         |-> 50,
      max_concurrent_positions |-> 3,
      max_drawdown             |-> R(1, 10),
      emergency_stop_loss      |-> R(15, 100),
      stop_loss                |-> R(5, 100),
      profit_target            |-> R(5, 100) ]

\* config "symbols"
symbols == <<"BTC", "ETH">>
SymbolSet == {symbols[i] : i \in 1..Len(symbols)}

Sides == {"long", "short"}

\* exchange_interface.OrderStatus
OrderStatus == {"pending", "open", "closed", "canceled", "expired", "rejected"}

(***************************************************************************)
(* RiskManager                                                             *)
(***************************************************************************)
RiskManagerInit(now) ==
    [ positions       |-> <<>>,     \* insertion-ordered dict: a sequence of Position
      daily_trades    |-> 0,
      daily_pnl       |-> Zero,
      trade_history   |-> <<>>,
      max_drawdown    |-> Zero,
      peak_balance    |-> Zero,
      last_reset_date |-> now ]

\* the keys of the positions dict, in iteration order
Keys(r) == [i \in 1..Len(r.positions) |-> r.positions[i].symbol]
KeySet(r) == {r.positions[i].symbol : i \in 1..Len(r.positions)}
HasPosition(r, symbol) == symbol \in KeySet(r)
IndexOf(r, symbol) == CHOOSE i \in 1..Len(r.positions) : r.positions[i].symbol = symbol
get_position(r, symbol) == r.positions[IndexOf(r, symbol)]

ResetOnlyTrades(r, now) ==
    IF now # r.last_reset_date
    THEN [r EXCEPT !.daily_trades = 0, !.last_reset_date = now]
    ELSE r

reset_daily_metrics(r, now) ==
    IF now # r.last_reset_date
    THEN [r EXCEPT !.daily_trades = 0, !.daily_pnl = Zero, !.last_reset_date = now]
    ELSE r

get_available_balance(cfg) == cfg.max_position_size

SizeNoMinimum(cfg, price, signal_strength) ==
    RDiv(RMin(RMul(get_available_balance(cfg),
                   RMul(cfg.position_size_percent, signal_strength)),
              cfg.max_position_size), price)

\* the value returned by calculate_position_size (its reset_daily_metrics
\* call is applied by the actions that call it)
calculate_position_size(cfg, price, signal_strength) ==
    LET adjusted_position_percent == RMul(cfg.position_size_percent, signal_strength)
        available_balance == get_available_balance(cfg)
        max_position_amount == RMul(available_balance, adjusted_position_percent)
    IN  IF RLt(max_position_amount, cfg.min_trade_amount)
        THEN Zero
        ELSE RDiv(RMin(max_position_amount, cfg.max_position_size), price)

Allowed == [allowed |-> TRUE, reason |-> "passed", limit |-> 0]
Denied(reason, limit) == [allowed |-> FALSE, reason |-> reason, limit |-> limit]

LimitsConcurrentFirst(cfg, r, symbol) ==
    IF Len(r.positions) >= cfg.max_concurrent_positions
    THEN Denied("max_concurrent_positions", cfg.max_concurrent_positions)
    ELSE IF r.daily_trades >= cfg.max_daily_trades
    THEN Denied("max_daily_trades", cfg.max_daily_trades)
    ELSE IF HasPosition(r, symbol)
    THEN Denied("symbol_has_position", 0)
    ELSE IF RLt(cfg.max_drawdown, r.max_drawdown)
    THEN Denied("max_drawdown", cfg.max_drawdown)
    ELSE IF RLt(cfg.emergency_stop_loss, r.max_drawdown)
    THEN Denied("emergency_stop_loss", cfg.emergency_stop_loss)
    ELSE Allowed

LimitsEmergencyFirst(cfg, r, symbol) ==
    IF r.daily_trades >= cfg.max_daily_trades
    THEN Denied("max_daily_trades", cfg.max_daily_trades)
    ELSE IF Len(r.positions) >= cfg.max_concurrent_positions
    THEN Denied("max_concurrent_positions", cfg.max_concurrent_positions)
    ELSE IF HasPosition(r, symbol)
    THEN Denied("symbol_has_position", 0)
    ELSE IF RLt(cfg.emergency_stop_loss, r.max_drawdown)
    THEN Denied("emergency_stop_loss", cfg.emergency_stop_loss)
    ELSE IF RLt(cfg.max_drawdown, r.max_drawdown)
    THEN Denied("max_drawdown", cfg.max_drawdown)
    ELSE Allowed

LimitsIgnoreSymbol(cfg, r, symbol) ==
    IF r.daily_trades >= cfg.max_daily_trades
    THEN Denied("max_daily_trades", cfg.max_daily_trades)
    ELSE IF Len(r.positions) >= cfg.max_concurrent_positions
    THEN Denied("max_concurrent_positions", cfg.max_concurrent_positions)
    ELSE IF RLt(cfg.max_drawdown, r.max_drawdown)
    THEN Denied("max_drawdown", cfg.max_drawdown)
    ELSE IF RLt(cfg.emergency_stop_loss, r.max_drawdown)
    THEN Denied("emergency_stop_loss", cfg.emergency_stop_loss)
    ELSE Allowed

LimitsNoEmergency(cfg, r, symbol) ==
    IF r.daily_trades >= cfg.max_daily_trades
    THEN Denied("max_daily_trades", cfg.max_daily_trades)
    ELSE IF Len(r.positions) >= cfg.max_concurrent_positions
    THEN Denied("max_concurrent_positions", cfg.max_concurrent_positions)
    ELSE IF HasPosition(r, symbol)
    THEN Denied("symbol_has_position", 0)
    ELSE IF RLt(cfg.max_drawdown, r.max_drawdown)
    THEN Denied("max_drawdown", cfg.max_drawdown)
    ELSE Allowed

\* the value returned by check_risk_limits on the state r left by its
\* reset_daily_metrics call; the reason strings are modelled by the name of
\* the limit they report and the configured value they print
check_risk_limits(cfg, r, symbol) ==
    IF r.daily_trades >= cfg.max_daily_trades
    THEN Denied("max_daily_trades", cfg.max_daily_trades)
    ELSE IF Len(r.positions) >= cfg.max_concurrent_positions
    THEN Denied("max_concurrent_positions", cfg.max_concurrent_positions)
    ELSE IF HasPosition(r, symbol)
    THEN Denied("symbol_has_position", 0)
    ELSE IF RLt(cfg.max_drawdown, r.max_drawdown)
    THEN Denied("max_drawdown", cfg.max_drawdown)
    ELSE IF RLt(cfg.emergency_stop_loss, r.max_drawdown)
    THEN Denied("emergency_stop_loss", cfg.emergency_stop_loss)
    ELSE Allowed

Position(symbol, side, amount, entry_price, now) ==
    [ symbol                 |-> symbol,
      side                   |-> side,
      amount                 |-> amount,
      entry_price            |-> entry_price,
      current_price          |-> entry_price,
      entry_time             |-> now,
      unrealized_pnl         |-> Zero,
      unrealized_pnl_percent |-> Zero ]

AddAlwaysAppends(r, symbol, side, amount, entry_price, now) ==
    [r EXCEPT !.positions = Append(@, Position(symbol, side, amount, entry_price, now)),
              !.daily_trades = @ + 1]

\* self.positions[symbol] = position: an existing key keeps its place in the
\* dict and gets the new value, a new key is appended
add_position(r, symbol, side, amount, entry_price, now) ==
    LET position == Position(symbol, side, amount, entry_price, now)
    IN  [r EXCEPT !.positions = IF HasPosition(r, symbol)
                                THEN [@ EXCEPT ![IndexOf(r, symbol)] = position]
                                ELSE Append(@, position),
                  !.daily_trades = @ + 1]

MarkIgnoresSide(r, symbol, current_price) ==
    IF HasPosition(r, symbol)
    THEN LET i == IndexOf(r, symbol)
             position == r.positions[i]
             pnl == RMul(RSub(current_price, position.entry_price), position.amount)
         IN  [r EXCEPT !.positions[i] =
                 [position EXCEPT !.current_price = current_price,
                                  !.unrealized_pnl = pnl,
                                  !.unrealized_pnl_percent =
                                      RDiv(pnl, RMul(position.entry_price, position.amount))]]
    ELSE r

update_position_price(r, symbol, current_price) ==
    IF HasPosition(r, symbol)
    THEN LET i == IndexOf(r, symbol)
             position == r.positions[i]
             pnl == IF position.side = "long"
                    THEN RMul(RSub(current_price, position.entry_price), position.amount)
                    ELSE RMul(RSub(position.entry_price, current_price), position.amount)
         IN  [r EXCEPT !.positions[i] =
                 [position EXCEPT !.current_price = current_price,
                                  !.unrealized_pnl = pnl,
                                  !.unrealized_pnl_percent =
                                      RDiv(pnl, RMul(position.entry_price, position.amount))]]
    ELSE r

TradeRecord(position, now) ==
    [ symbol      |-> position.symbol,
      side        |-> position.side,
      amount      |-> position.amount,
      entry_price |-> position.entry_price,
      exit_price  |-> position.current_price,
      entry_time  |-> position.entry_time,
      exit_time   |-> now,
      pnl         |-> position.unrealized_pnl,
      pnl_percent |-> position.unrealized_pnl_percent ]

RemoveMissingClearsHistory(r, symbol, now) ==
    IF HasPosition(r, symbol)
    THEN LET position == get_position(r, symbol)
         IN  [r EXCEPT !.positions = SelectSeq(@, LAMBDA p : p.symbol # symbol),
                       !.trade_history = Append(@, TradeRecord(position, now)),
                       !.daily_pnl = RAdd(@, position.unrealized_pnl)]
    ELSE [r EXCEPT !.trade_history = <<>>]

RemovePrependsRecord(r, symbol, now) ==
    IF HasPosition(r, symbol)
    THEN LET position == get_position(r, symbol)
         IN  [r EXCEPT !.positions = SelectSeq(@, LAMBDA p : p.symbol # symbol),
                       !.trade_history = <<TradeRecord(position, now)>> \o @,
                       !.daily_pnl = RAdd(@, position.unrealized_pnl)]
    ELSE r

RemoveForgetsDailyPnl(r, symbol, now) ==
    IF HasPosition(r, symbol)
    THEN LET position == get_position(r, symbol)
         IN  [r EXCEPT !.positions = SelectSeq(@, LAMBDA p : p.symbol # symbol),
                       !.trade_history = Append(@, TradeRecord(position, now))]
    ELSE r

\* the state left by remove_position; it returns None exactly when the
\* symbol has no position
remove_position(r, symbol, now) ==
    IF HasPosition(r, symbol)
    THEN LET position == get_position(r, symbol)
         IN  [r EXCEPT !.positions = SelectSeq(@, LAMBDA p : p.symbol # symbol),
                       !.trade_history = Append(@, TradeRecord(position, now)),
                       !.daily_pnl = RAdd(@, position.unrealized_pnl)]
    ELSE r

ShouldCloseExclusive(cfg, r, symbol) ==
    IF ~HasPosition(r, symbol) THEN FALSE
    ELSE LET position == get_position(r, symbol)
         IN  \/ RLt(position.unrealized_pnl_percent, RNeg(cfg.stop_loss))
             \/ RLt(cfg.profit_target, position.unrealized_pnl_percent)

should_close_position(cfg, r, symbol) ==
    IF ~HasPosition(r, symbol) THEN FALSE
    ELSE LET position == get_position(r, symbol)
         IN  \/ RLe(position.unrealized_pnl_percent, RNeg(cfg.stop_loss))
             \/ RLe(cfg.profit_target, position.unrealized_pnl_percent)

MetricsPeakFollows(cfg, r0, now) ==
    LET r == reset_daily_metrics(r0, now)
        total_balance == get_available_balance(cfg)
        current_balance ==
            RAdd(total_balance,
                 RSum([i \in 1..Len(r.positions) |-> r.positions[i].unrealized_pnl]))
        peak == current_balance
        drawdown == IF RLt(Zero, peak) THEN RDiv(RSub(peak, current_balance), peak)
                    ELSE Zero
    IN  [r EXCEPT !.peak_balance = peak,
                  !.max_drawdown = RMax(@, drawdown)]

MetricsDrawdownAdds(cfg, r0, now) ==
    LET r == reset_daily_metrics(r0, now)
        total_balance == get_available_balance(cfg)
        current_balance ==
            RAdd(total_balance,
                 RSum([i \in 1..Len(r.positions) |-> r.positions[i].unrealized_pnl]))
        peak == IF RLt(r.peak_balance, current_balance) THEN current_balance
                ELSE r.peak_balance
        drawdown == IF RLt(Zero, peak) THEN RDiv(RSub(peak, current_balance), peak)
                    ELSE Zero
    IN  [r EXCEPT !.peak_balance = peak,
                  !.max_drawdown = RAdd(@, drawdown)]

\* the state left by calculate_risk_metrics
calculate_risk_metrics(cfg, r0, now) ==
    LET r == reset_daily_metrics(r0, now)
        total_balance == get_available_balance(cfg)
        current_balance ==
            RAdd(total_balance,
                 RSum([i \in 1..Len(r.positions) |-> r.positions[i].unrealized_pnl]))
        peak == IF RLt(r.peak_balance, current_balance) THEN current_balance
                ELSE r.peak_balance
        drawdown == IF RLt(Zero, peak) THEN RDiv(RSub(peak, current_balance), peak)
                    ELSE Zero
    IN  [r EXCEPT !.peak_balance = peak,
                  !.max_drawdown = RMax(@, drawdown)]

\* the reason returned by should_close_position, by the name of its branch
should_close_reason(cfg, r, symbol) ==
    IF ~HasPosition(r, symbol) THEN "no_position"
    ELSE LET position == get_position(r, symbol)
         IN  IF RLe(position.unrealized_pnl_percent, RNeg(cfg.stop_loss))
             THEN "stop_loss"
             ELSE IF RLe(cfg.profit_target, position.unrealized_pnl_percent)
             THEN "profit_target"
             ELSE "normal"

\* RiskLevel, lowest first
RiskLevel == <<"low", "medium", "high", "critical">>

LevelIgnoresWinRate(drawdown, daily_trades, win_rate) ==
    IF RLt(R(15, 100), drawdown) \/ daily_trades > 40
    THEN "critical"
    ELSE IF RLt(R(1, 10), drawdown) \/ daily_trades > 30
    THEN "high"
    ELSE IF RLt(R(5, 100), drawdown) \/ daily_trades > 20
    THEN "medium"
    ELSE "low"

LevelMediumFirst(drawdown, daily_trades, win_rate) ==
    IF RLt(R(5, 100), drawdown) \/ daily_trades > 20 \/ RLt(win_rate, R(5, 10))
    THEN "medium"
    ELSE IF RLt(R(1, 10), drawdown) \/ daily_trades > 30 \/ RLt(win_rate, R(4, 10))
    THEN "high"
    ELSE IF RLt(R(15, 100), drawdown) \/ daily_trades > 40 \/ RLt(win_rate, R(3, 10))
    THEN "critical"
    ELSE "low"

determine_risk_level(drawdown, daily_trades, win_rate) ==
    IF RLt(R(15, 100), drawdown) \/ daily_trades > 40 \/ RLt(win_rate, R(3, 10))
    THEN "critical"
    ELSE IF RLt(R(1, 10), drawdown) \/ daily_trades > 30 \/ RLt(win_rate, R(4, 10))
    THEN "high"
    ELSE IF RLt(R(5, 100), drawdown) \/ daily_trades > 20 \/ RLt(win_rate, R(5, 10))
    THEN "medium"
    ELSE "low"

\* np.mean and the square of np.std (population variance) of a sequence
Mean(s) == RDiv(RSum(s), RInt(Len(s)))
Variance(s) ==
    LET m == Mean(s)
    IN  RDiv(RSum([i \in 1..Len(s) |-> RMul(RSub(s[i], m), RSub(s[i], m))]),
             RInt(Len(s)))

\* np.mean(returns) / np.std(returns) is kept as the pair (mean, variance) it
\* is computed from; it is 0 exactly when mean is 0
SharpeZero == [mean |-> Zero, variance |-> One]

SharpeUnguarded(returns) ==
    IF Len(returns) > 1 /\ Mean(returns) # Zero
    THEN [mean |-> Mean(returns), variance |-> Variance(returns)]
    ELSE SharpeZero

Sharpe(returns) ==
    IF Len(returns) > 1 /\ RLt(Zero, Variance(returns)) /\ Mean(returns) # Zero
    THEN [mean |-> Mean(returns), variance |-> Variance(returns)]
    ELSE SharpeZero

\* the RiskMetrics returned by calculate_risk_metrics
RiskMetrics(cfg, r0, now) ==
    LET r == reset_daily_metrics(r0, now)
        after == calculate_risk_metrics(cfg, r0, now)
        total_balance == get_available_balance(cfg)
        total_exposure ==
            RSum([i \in 1..Len(r.positions) |->
                      RMul(r.positions[i].amount, r.positions[i].current_price)])
        current_balance ==
            RAdd(total_balance,
                 RSum([i \in 1..Len(r.positions) |-> r.positions[i].unrealized_pnl]))
        drawdown == IF RLt(Zero, after.peak_balance)
                    THEN RDiv(RSub(after.peak_balance, current_balance),
                              after.peak_balance)
                    ELSE Zero
        winning_trades ==
            Cardinality({i \in 1..Len(r.trade_history) :
                            RLt(Zero, r.trade_history[i].pnl)})
        win_rate == IF r.trade_history # <<>>
                    THEN R(winning_trades, Len(r.trade_history))
                    ELSE Zero
        returns == [i \in 1..Len(r.trade_history) |-> r.trade_history[i].pnl_percent]
    IN  [ total_balance     |-> total_balance,
          available_balance |-> total_balance,
          total_exposure    |-> total_exposure,
          max_drawdown      |-> after.max_drawdown,
          daily_pnl         |-> after.daily_pnl,
          daily_trades      |-> after.daily_trades,
          win_rate          |-> win_rate,
          sharpe_ratio      |-> Sharpe(returns),
          risk_level        |-> determine_risk_level(drawdown, after.daily_trades,
                                                     win_rate) ]

(***************************************************************************)
(* The last call whose result a property speaks about: a RiskManager query *)
(* or an order acknowledgment.  Other steps leave NoOp.                    *)
(***************************************************************************)
NoOp == [op |-> "none", symbol |-> "", status |-> "", by |-> "",
         args |-> <<>>, result |-> <<>>]
Op(op, symbol, status, by, args, result) ==
    [op |-> op, symbol |-> symbol, status |-> status, by |-> by,
     args |-> args, result |-> result]

Idle == [kind |-> "none", pc |-> "idle", todo |-> <<>>, sym |-> "", idx |-> 0,
         side |-> "", amount |-> Zero, price |-> Zero]

TaskIds == 1..MaxTasks

BotInit ==
    /\ today = 0
    /\ rm = RiskManagerInit(0)
    /\ is_running = FALSE
    /\ active_exchange = FALSE
    /\ active_strategy = FALSE
    /\ tasks = [t \in TaskIds |-> Idle]
    /\ started = FALSE
    /\ nOrders = 0
    /\ last = NoOp

BotUnchanged == UNCHANGED <<is_running, trading_enabled, active_exchange,
                            active_strategy, tasks, started, nOrders>>

\* the calendar date observed by datetime.now() advances
AdvanceDay ==
    /\ today < MaxDay
    /\ today' = today + 1
    /\ last' = NoOp
    /\ UNCHANGED <<config, rm>>
    /\ BotUnchanged

(***************************************************************************)
(* TradingBot.  A coroutine runs from one await on the exchange gateway to *)
(* the next without interruption; the operators below compute where the    *)
(* code started at some point suspends next (task) and the RiskManager it  *)
(* leaves (rm).                                                            *)
(***************************************************************************)
BotConfigs ==
    { [DefaultRisk EXCEPT !.max_daily_trades = 2, !.max_concurrent_positions = 2] }

TickerPrices == {RInt(90)}                         \* ticker.last
TradeSignals == {"buy"}                            \* signal.signal, not HOLD
SignalPrices == {RInt(100)}                        \* signal.price
SignalStrengths == {Zero, One}                     \* signal.strength
ManualSides == {"long"}
ManualAmounts == {RInt(1)}
ManualPrices == {R(999, 10)}
Raise == "raise"                                   \* the awaited call raised

\* get_klines returned no candles or raised, or the strategy returned HOLD
NoSignalOutcomes == {"empty", Raise, "hold"}

Done(r) == [task |-> Idle, rm |-> r]
Suspend(task, r) == [task |-> task, rm |-> r]
At(kind, pc, sym, todo, idx) ==
    [Idle EXCEPT !.kind = kind, !.pc = pc, !.sym = sym, !.todo = todo, !.idx = idx]

\* trading_bot.py:224, 331: the acknowledgment that makes the bot add a position
EntryAcceptsPending(status) == status \in {"open", "pending"}
EntryAccepted(status) == status = "open"

\* trading_bot.py:267: the acknowledgment that makes the bot remove a position
CloseAcceptsCanceled(status) == status \in {"open", "canceled"}
CloseAccepted(status) == status = "open"

\* _log_status, after which _execute_trading_cycle returns
LogStatus(r) == Done(calculate_risk_metrics(config, r, today))

\* the for loop of _check_entry_signals from symbols[i] on: it suspends at
\* get_klines of the first symbol without a position
RECURSIVE EntryLoop(_, _)
EntryLoop(r, i) ==
    IF i > Len(symbols) THEN LogStatus(r)
    ELSE IF HasPosition(r, symbols[i]) THEN EntryLoop(r, i + 1)
    ELSE Suspend(At("cycle", "klines", symbols[i], <<>>, i), r)

EntriesIgnoreDisabled(r) ==
    IF active_exchange /\ active_strategy
    THEN EntryLoop(r, 1)
    ELSE LogStatus(r)

\* _execute_trading_cycle: _check_entry_signals only if trading_enabled
CheckEntrySignals(r) ==
    IF trading_enabled /\ active_exchange /\ active_strategy
    THEN EntryLoop(r, 1)
    ELSE LogStatus(r)

\* the for loop of _check_exit_signals over the rest of its snapshot: it
\* suspends at get_ticker of _close_position for the first position to close
RECURSIVE ExitLoop(_, _)
ExitLoop(r, todo) ==
    IF todo = <<>> THEN CheckEntrySignals(r)
    ELSE IF should_close_position(config, r, Head(todo)) /\ active_exchange
    THEN Suspend(At("cycle", "close_ticker", Head(todo), Tail(todo), 0), r)
    ELSE ExitLoop(r, Tail(todo))

CheckExitSignals(r) ==
    IF active_exchange THEN ExitLoop(r, Keys(r)) ELSE CheckEntrySignals(r)

\* the for loop of _update_positions over the rest of its snapshot
UpdateLoop(r, todo) ==
    IF todo = <<>> THEN CheckExitSignals(r)
    ELSE Suspend(At("cycle", "upd_ticker", Head(todo), Tail(todo), 0), r)

UpdatePositions(r) ==
    IF active_exchange THEN UpdateLoop(r, Keys(r)) ELSE CheckExitSignals(r)

\* close_all_exchanges: it suspends at disconnect of the connected exchange
CloseAllExchanges(r) ==
    IF active_exchange THEN Suspend(At("stop", "disconnect", "", <<>>, 0), r)
    ELSE Done(r)

ClosePositionWithoutExchange(r, symbol) == HasPosition(r, symbol)

\* _close_position gets past its two early returns: there is an active
\* exchange and the symbol has a position
ClosePositionRuns(r, symbol) == active_exchange /\ HasPosition(r, symbol)

\* the for loop of _close_all_positions over the rest of its snapshot
RECURSIVE StopLoop(_, _)
StopLoop(r, todo) ==
    IF todo = <<>> THEN CloseAllExchanges(r)
    ELSE IF ClosePositionRuns(r, Head(todo))
    THEN Suspend(At("stop", "close_ticker", Head(todo), Tail(todo), 0), r)
    ELSE StopLoop(r, Tail(todo))

AfterCloseAbortsCycle(kind, r, todo) ==
    IF kind = "stop" THEN StopLoop(r, todo) ELSE LogStatus(r)

\* the loop that called _close_position goes on
AfterClose(kind, r, todo) ==
    IF kind = "stop" THEN StopLoop(r, todo) ELSE ExitLoop(r, todo)

FreeSlot(t) ==
    /\ tasks[t] = Idle
    /\ \A u \in TaskIds : u < t => tasks[u] # Idle

\* the tasks in flight, oldest first (the slot numbers carry no meaning)
Compact(ts) ==
    LET busy == SelectSeq(ts, LAMBDA x : x # Idle)
    IN  [t \in TaskIds |-> IF t <= Len(busy) THEN busy[t] ELSE Idle]

Resume(t, res) ==
    /\ tasks' = Compact([tasks EXCEPT ![t] = res.task])
    /\ rm' = res.rm

\* initialize_exchanges connects an exchange, connects none, or raises;
\* initialize_strategies returns True or False (it catches its exceptions)
ExchangeOutcomes == {"ok", "fail", Raise}
StrategyOutcomes == {"ok", "fail"}

StartIgnoresStrategies ==
    /\ ~started
    /\ \E exchanges \in ExchangeOutcomes, strategies \in StrategyOutcomes :
        LET exchanges_ok == exchanges = "ok"
            strategies_ok == strategies = "ok"
            initialized == exchanges_ok /\ strategies_ok
        IN  /\ started' = TRUE
            /\ active_exchange' = exchanges_ok
            /\ active_strategy' = initialized
            /\ is_running' = exchanges_ok
            /\ last' = Op("initialize", "", "", "",
                          <<exchanges, IF exchanges_ok THEN strategies ELSE "skipped">>,
                          <<initialized>>)
    /\ UNCHANGED <<config, rm, today, trading_enabled, tasks, nOrders>>

\* TradingBot.start up to its main loop: initialize, then is_running = True
\* and the schedule of _run_trading_cycle
Start ==
    /\ ~started
    /\ \E exchanges \in ExchangeOutcomes, strategies \in StrategyOutcomes :
        LET exchanges_ok == exchanges = "ok"
            strategies_ok == strategies = "ok"
            initialized == exchanges_ok /\ strategies_ok
        IN  /\ started' = TRUE
            /\ active_exchange' = exchanges_ok
            /\ active_strategy' = initialized
            /\ is_running' = initialized
            /\ last' = Op("initialize", "", "", "",
                          <<exchanges, IF exchanges_ok THEN strategies ELSE "skipped">>,
                          <<initialized>>)
    /\ UNCHANGED <<config, rm, today, trading_enabled, tasks, nOrders>>

\* schedule.run_pending fires _run_trading_cycle: the new task runs
\* _execute_trading_cycle up to its first await
Tick(t) ==
    /\ is_running
    /\ FreeSlot(t)
    /\ Resume(t, UpdatePositions(rm))
    /\ last' = NoOp
    /\ UNCHANGED <<config, today, is_running, trading_enabled, active_exchange,
                   active_strategy, started, nOrders>>

\* get_ticker of _update_positions returns or raises
TickerReturn(t) ==
    /\ tasks[t].pc = "upd_ticker"
    /\ \/ \E price \in TickerPrices :
            LET res == UpdateLoop(update_position_price(rm, tasks[t].sym, price),
                                  tasks[t].todo)
            IN  /\ Resume(t, res)
                /\ last' = Op("ticker", tasks[t].sym, "ok", "cycle",
                              <<tasks[t].todo>>, res.task)
       \/ LET res == UpdateLoop(rm, tasks[t].todo)
          IN  /\ Resume(t, res)
              /\ last' = Op("ticker", tasks[t].sym, Raise, "cycle",
                            <<tasks[t].todo>>, res.task)
    /\ UNCHANGED <<config, today, is_running, trading_enabled, active_exchange,
                   active_strategy, started, nOrders>>

\* get_ticker of _close_position returns (the closing order is submitted)
\* or raises
CloseTickerReturn(t) ==
    /\ tasks[t].pc = "close_ticker"
    /\ \/ /\ nOrders < MaxOrders
          /\ nOrders' = nOrders + 1
          /\ tasks' = [tasks EXCEPT ![t].pc = "close_order"]
          /\ rm' = rm
          /\ last' = Op("close_ticker", tasks[t].sym, "ok", tasks[t].kind,
                        <<tasks[t].todo>>, [tasks[t] EXCEPT !.pc = "close_order"])
       \/ LET res == AfterClose(tasks[t].kind, rm, tasks[t].todo)
          IN  /\ Resume(t, res)
              /\ nOrders' = nOrders
              /\ last' = Op("close_ticker", tasks[t].sym, Raise, tasks[t].kind,
                            <<tasks[t].todo>>, res.task)
    /\ UNCHANGED <<config, today, is_running, trading_enabled, active_exchange,
                   active_strategy, started>>

\* create_order of _close_position is acknowledged or raises; when
\* remove_position returns None the log line raises and nothing changes
CloseOrderAck(t) ==
    /\ tasks[t].pc = "close_order"
    /\ \E status \in OrderStatus \cup {Raise} :
        LET res == AfterClose(tasks[t].kind,
                              IF CloseAccepted(status)
                              THEN remove_position(rm, tasks[t].sym, today)
                              ELSE rm,
                              tasks[t].todo)
        IN  /\ Resume(t, res)
            /\ last' = Op("close_ack", tasks[t].sym, status, tasks[t].kind,
                          <<tasks[t].todo>>, res.task)
    /\ UNCHANGED <<config, today, is_running, trading_enabled, active_exchange,
                   active_strategy, started, nOrders>>

\* get_klines returns: no candles, an exception or a HOLD signal move on to
\* the next symbol; a BUY or SELL signal runs _execute_signal up to
\* create_order
KlinesReturn(t) ==
    /\ tasks[t].pc = "klines"
    /\ \/ \E outcome \in NoSignalOutcomes :
            LET res == EntryLoop(rm, tasks[t].idx + 1)
            IN  /\ Resume(t, res)
                /\ nOrders' = nOrders
                /\ last' = Op("klines", tasks[t].sym, outcome, "cycle",
                              <<tasks[t].idx>>, res.task)
       \/ \E signal \in TradeSignals, strength \in SignalStrengths,
             price \in SignalPrices :
            LET side == IF signal = "buy" THEN "long" ELSE "short"
                r1 == reset_daily_metrics(rm, today)
                can_trade == check_risk_limits(config, r1, tasks[t].sym).allowed
                position_size == calculate_position_size(config, price, strength)
                order_price == IF signal = "buy" THEN RMul(price, R(999, 1000))
                               ELSE RMul(price, R(1001, 1000))
                order == [tasks[t] EXCEPT !.pc = "entry_order", !.side = side,
                                          !.amount = position_size,
                                          !.price = order_price]
                res == IF ~active_exchange THEN EntryLoop(rm, tasks[t].idx + 1)
                       ELSE IF ~can_trade \/ RLe(position_size, Zero)
                       THEN EntryLoop(r1, tasks[t].idx + 1)
                       ELSE Suspend(order, r1)
            IN  /\ res.task.pc = "entry_order" => nOrders < MaxOrders
                /\ nOrders' = IF res.task.pc = "entry_order" THEN nOrders + 1
                              ELSE nOrders
                /\ Resume(t, res)
                /\ last' = Op("klines", tasks[t].sym, signal, "cycle",
                              <<tasks[t].idx, strength, price>>, res.task)
    /\ UNCHANGED <<config, today, is_running, trading_enabled, active_exchange,
                   active_strategy, started>>

\* create_order of _execute_signal is acknowledged or raises
EntryOrderAck(t) ==
    /\ tasks[t].pc = "entry_order"
    /\ \E status \in OrderStatus \cup {Raise} :
        LET res == EntryLoop(IF EntryAccepted(status)
                             THEN add_position(rm, tasks[t].sym, tasks[t].side,
                                               tasks[t].amount, tasks[t].price, today)
                             ELSE rm,
                             tasks[t].idx + 1)
        IN  /\ Resume(t, res)
            /\ last' = Op("entry_ack", tasks[t].sym, status, "cycle",
                          <<tasks[t].idx>>, res.task)
    /\ UNCHANGED <<config, today, is_running, trading_enabled, active_exchange,
                   active_strategy, started, nOrders>>

\* manual_trade (a limit order) up to create_order
ManualTrade(t) ==
    /\ active_exchange
    /\ FreeSlot(t)
    /\ \E symbol \in SymbolSet, side \in ManualSides, amount \in ManualAmounts,
          price \in ManualPrices :
        LET r1 == reset_daily_metrics(rm, today)
        IN  /\ rm' = r1
            /\ IF check_risk_limits(config, r1, symbol).allowed
               THEN /\ nOrders < MaxOrders
                    /\ nOrders' = nOrders + 1
                    /\ tasks' = [tasks EXCEPT ![t] =
                           [Idle EXCEPT !.kind = "manual", !.pc = "manual_order",
                                        !.sym = symbol, !.side = side,
                                        !.amount = amount, !.price = price]]
               ELSE UNCHANGED <<tasks, nOrders>>
    /\ last' = NoOp
    /\ UNCHANGED <<config, today, is_running, trading_enabled, active_exchange,
                   active_strategy, started>>

\* create_order of manual_trade is acknowledged or raises
ManualOrderAck(t) ==
    /\ tasks[t].pc = "manual_order"
    /\ \E status \in OrderStatus \cup {Raise} :
        /\ Resume(t, Done(IF EntryAccepted(status)
                          THEN add_position(rm, tasks[t].sym, tasks[t].side,
                                            tasks[t].amount, tasks[t].price, today)
                          ELSE rm))
        /\ last' = Op("entry_ack", tasks[t].sym, status, "manual", <<>>, Idle)
    /\ UNCHANGED <<config, today, is_running, trading_enabled, active_exchange,
                   active_strategy, started, nOrders>>

\* TradingBot.stop up to its first await
Stop(t) ==
    /\ started
    /\ FreeSlot(t)
    /\ \A u \in TaskIds : tasks[u].kind # "stop"
    /\ is_running' = FALSE
    /\ LET res == StopLoop(rm, Keys(rm))
       IN  /\ Resume(t, res)
           /\ last' = Op("stop", "", "", "stop", <<active_exchange>>, res.task)
    /\ UNCHANGED <<config, today, trading_enabled, active_exchange,
                   active_strategy, started, nOrders>>

\* exchange.disconnect returns (exchanges.clear(), active_exchange = None)
\* or raises out of stop
DisconnectReturn(t) ==
    /\ tasks[t].pc = "disconnect"
    /\ active_exchange' \in {FALSE, active_exchange}
    /\ tasks' = Compact([tasks EXCEPT ![t] = Idle])
    /\ last' = NoOp
    /\ UNCHANGED <<config, rm, today, is_running, trading_enabled,
                   active_strategy, started, nOrders>>

Init ==
    /\ config \in BotConfigs
    /\ trading_enabled \in BOOLEAN
    /\ BotInit

Next ==
    \/ Start
    \/ \E t \in TaskIds :
        \/ Tick(t)
        \/ TickerReturn(t)
        \/ CloseTickerReturn(t)
        \/ CloseOrderAck(t)
        \/ KlinesReturn(t)
        \/ EntryOrderAck(t)
        \/ ManualTrade(t)
        \/ ManualOrderAck(t)
        \/ Stop(t)
        \/ DisconnectReturn(t)

\* the bot within one calendar day
Spec == Init /\ [][Next]_vars

(***************************************************************************)
(* C1: at most one decision cycle (_execute_trading_cycle) is in flight at *)
(* any time; a tick that finds a cycle in flight starts no second one.     *)
(***************************************************************************)
CyclesInFlight == {t \in TaskIds : tasks[t].kind = "cycle"}

C1_AtMostOneCycleInFlight == Cardinality(CyclesInFlight) <= 1

(***************************************************************************)
(* C2: add_position for a symbol that already has a live position is       *)
(* rejected: the existing Position is left as it was.                      *)
(***************************************************************************)
AddPositionCalled ==
    last'.op = "entry_ack" /\ EntryAccepted(last'.status)

C2_DoubleOpenRejected ==
    [][(AddPositionCalled /\ HasPosition(rm, last'.symbol))
           => get_position(rm', last'.symbol) = get_position(rm, last'.symbol)]_vars

(***************************************************************************)
(* C3: in every reachable state the live position map holds at most one    *)
(* Position per symbol.                                                    *)
(***************************************************************************)
C3_OnePositionPerSymbol ==
    \A i, j \in 1..Len(rm.positions) :
        i # j => rm.positions[i].symbol # rm.positions[j].symbol

\* more positions were added today than are live or closed: some symbol was
\* opened while it already had a position
C3_Witness ==
    /\ rm.daily_trades > Len(rm.positions) + Len(rm.trade_history)
    /\ rm.positions # <<>>

(***************************************************************************)
(* C4: a Position is inserted only in the step in which the entry order    *)
(* for its symbol is acknowledged with status open; when create_order      *)
(* raises or returns another status, no position is inserted, the daily    *)
(* trade counter is unchanged and the cycle goes on with the next symbol.  *)
(***************************************************************************)
NewPosition(symbol) == HasPosition(rm', symbol) /\ ~HasPosition(rm, symbol)

\* the task a cycle becomes after handling symbols[i]: suspended at get_klines
\* of the next symbol without a position, or finished when there is none
ContinuesAfter(i, task) ==
    LET rest == {j \in (i + 1)..Len(symbols) : ~HasPosition(rm', symbols[j])}
    IN  IF rest = {} THEN task = Idle
        ELSE /\ task.kind = "cycle"
             /\ task.pc = "klines"
             /\ task.idx \in rest
             /\ \A j \in rest : task.idx <= j

C4_PositionOnlyOnOpenAck ==
    [][/\ \A symbol \in SymbolSet :
              NewPosition(symbol) =>
                  /\ last'.op = "entry_ack"
                  /\ last'.symbol = symbol
                  /\ last'.status = "open"
       /\ rm'.daily_trades # rm.daily_trades =>
              last'.op = "entry_ack" /\ last'.status = "open"
       /\ (last'.op = "entry_ack" /\ last'.status # "open") =>
              /\ rm'.positions = rm.positions
              /\ rm'.daily_trades = rm.daily_trades
              /\ last'.by = "cycle" => ContinuesAfter(last'.args[1], last'.result)
      ]_vars

\* an entry order acknowledged open has just put its position in the map
C4_Witness ==
    /\ last.op = "entry_ack"
    /\ last.status = "open"
    /\ HasPosition(rm, last.symbol)
    /\ rm.daily_trades = 1

\* a cycle's entry order was rejected and the cycle went on to the next symbol
C4_WitnessRejected ==
    /\ last.op = "entry_ack"
    /\ last.by = "cycle"
    /\ last.status = "rejected"
    /\ last.result.pc = "klines"
    /\ \E t \in TaskIds : tasks[t] = last.result

(***************************************************************************)
(* C5: a live Position leaves the map, as one TradeRecord, only in the     *)
(* step in which a closing order for its symbol is acknowledged, in a      *)
(* cycle or in the liquidation of stop; when the closing order raises or   *)
(* is acknowledged with a status that is not an accepted one, the position *)
(* stays as it is and no TradeRecord is appended.                          *)
(***************************************************************************)
AcceptedStatuses == {"open", "closed"}

C5_PositionRemovedOnlyOnCloseAck ==
    [][/\ \A symbol \in SymbolSet :
              (HasPosition(rm, symbol) /\ ~HasPosition(rm', symbol)) =>
                  /\ last'.op = "close_ack"
                  /\ last'.symbol = symbol
                  /\ last'.by \in {"cycle", "stop"}
                  /\ last'.status \in AcceptedStatuses
                  /\ rm'.trade_history =
                         Append(rm.trade_history,
                                TradeRecord(get_position(rm, symbol), today))
       /\ rm'.trade_history # rm.trade_history =>
              /\ last'.op = "close_ack"
              /\ HasPosition(rm, last'.symbol)
              /\ ~HasPosition(rm', last'.symbol)
       /\ (last'.op = "close_ack" /\ last'.status \notin AcceptedStatuses) =>
              /\ rm'.positions = rm.positions
              /\ rm'.trade_history = rm.trade_history
      ]_vars

\* stop has just liquidated a position
C5_Witness ==
    /\ last.op = "close_ack"
    /\ last.by = "stop"
    /\ last.status = "open"
    /\ ~HasPosition(rm, last.symbol)
    /\ rm.trade_history # <<>>
    /\ rm.trade_history[Len(rm.trade_history)].symbol = last.symbol

(***************************************************************************)
(* C6: an order acknowledged open or closed is accepted (an accepted entry *)
(* order creates the position, an accepted closing order removes it);      *)
(* orders acknowledged pending, canceled, expired or rejected change       *)
(* neither the position map nor the counters.                              *)
(***************************************************************************)
C6_OpenOrClosedAccepted ==
    [][/\ (last'.op = "entry_ack" /\ last'.status \in AcceptedStatuses) =>
              /\ HasPosition(rm', last'.symbol)
              /\ rm'.daily_trades = rm.daily_trades + 1
       /\ (last'.op = "close_ack" /\ last'.status \in AcceptedStatuses
               /\ HasPosition(rm, last'.symbol)) =>
              ~HasPosition(rm', last'.symbol)
       /\ (last'.op \in {"entry_ack", "close_ack"}
               /\ last'.status \in OrderStatus \ AcceptedStatuses) =>
              /\ rm'.positions = rm.positions
              /\ rm'.daily_trades = rm.daily_trades
              /\ rm'.daily_pnl = rm.daily_pnl
      ]_vars

(***************************************************************************)
(* SpecSize: calculate_position_size over configurations, prices and       *)
(* signal strengths.                                                       *)
(***************************************************************************)
SizeConfigs ==
    { [DefaultRisk EXCEPT !.position_size_percent = p,
                          !.min_trade_amount = mn,
                          !.max_position_size = mx] :
        p \in {R(1, 10), One, RInt(2)},
        mn \in {RInt(10), RInt(200)},
        mx \in {RInt(5), RInt(1000)} }

SizePrices == {RInt(50), RInt(100)}
SizeStrengths == {Zero, R(1, 20), R(1, 2), One}

InitSize ==
    /\ config \in SizeConfigs
    /\ trading_enabled = TRUE
    /\ BotInit

SizeCall ==
    \E price \in SizePrices, strength \in SizeStrengths :
        /\ rm' = reset_daily_metrics(rm, today)
        /\ last' = Op("calculate_position_size", "BTC", "", "", <<price, strength>>,
                      calculate_position_size(config, price, strength))
        /\ UNCHANGED <<config, today>>
        /\ BotUnchanged

NextSize == SizeCall \/ AdvanceDay

SpecSize == InitSize /\ [][NextSize]_vars

(***************************************************************************)
(* C9: for strengths in [0,1] and prices > 0, calculate_position_size      *)
(* returns 0 when availableBalance * basePercent * strength is below the   *)
(* minimum trade notional, and the notional of the returned quantity       *)
(* never exceeds the configured maximum position notional.                 *)
(***************************************************************************)
DesiredNotional(strength) ==
    RMul(RMul(get_available_balance(config), config.position_size_percent), strength)

C9_SizeZeroBelowMinimumAndCapped ==
    last.op = "calculate_position_size" =>
        LET price == last.args[1]
            strength == last.args[2]
        IN  (RLe(Zero, strength) /\ RLe(strength, One) /\ RLt(Zero, price)) =>
                /\ RLt(DesiredNotional(strength), config.min_trade_amount)
                       => last.result = Zero
                /\ RLe(RMul(last.result, price), config.max_position_size)

\* a call whose desired notional passes the minimum and is cut to the maximum
C9_Witness ==
    /\ last.op = "calculate_position_size"
    /\ RLt(config.max_position_size, DesiredNotional(last.args[2]))
    /\ RMul(last.result, last.args[1]) = config.max_position_size

\* a call that returns 0 for a positive strength below the minimum
C9_WitnessBelowMinimum ==
    /\ last.op = "calculate_position_size"
    /\ RLt(Zero, last.args[2])
    /\ RLt(DesiredNotional(last.args[2]), config.min_trade_amount)
    /\ last.result = Zero

(***************************************************************************)
(* C10: calculate_position_size clamps the desired notional to the maximum *)
(* first and tests the clamped notional against the minimum: it returns 0  *)
(* whenever the clamped notional is below the minimum, and                 *)
(* clampedNotional / price otherwise.                                      *)
(***************************************************************************)
C10_ClampThenMinimum ==
    last.op = "calculate_position_size" =>
        LET price == last.args[1]
            clamped == RMin(DesiredNotional(last.args[2]), config.max_position_size)
        IN  last.result = IF RLt(clamped, config.min_trade_amount)
                          THEN Zero
                          ELSE RDiv(clamped, price)

(***************************************************************************)
(* SpecRM: the RiskManager driven through its public methods in any order  *)
(* within one calendar day.                                                *)
(***************************************************************************)
\* (max_drawdown, emergency_stop_loss): the defaults, the emergency ceiling
\* below the drawdown ceiling, and both within reach of one losing position
RMCeilings == { <<R(10, 100), R(15, 100)>>, <<R(10, 100), R(5, 100)>>,
                <<R(5, 100), R(8, 100)>>, <<R(8, 100), R(8, 100)>> }

RMConfigs ==
    { [DefaultRisk EXCEPT !.max_daily_trades = 2,
                          !.max_concurrent_positions = 2,
                          !.max_drawdown = c[1],
                          !.emergency_stop_loss = c[2]] :
        c \in RMCeilings }

RMAmounts == {RInt(3)}
RMPrices == {RInt(70), RInt(100)}

InitRM ==
    /\ config \in RMConfigs
    /\ trading_enabled = TRUE
    /\ BotInit

RMAddPosition ==
    \E symbol \in SymbolSet, side \in Sides, amount \in RMAmounts :
        /\ rm.daily_trades < MaxOpens
        /\ rm' = add_position(rm, symbol, side, amount, RInt(100), today)
        /\ last' = NoOp
        /\ UNCHANGED <<config, today>>
        /\ BotUnchanged

RMUpdatePrice ==
    \E symbol \in SymbolSet, price \in RMPrices :
        /\ rm' = update_position_price(rm, symbol, price)
        /\ last' = NoOp
        /\ UNCHANGED <<config, today>>
        /\ BotUnchanged

RMRemovePosition ==
    \E symbol \in SymbolSet :
        /\ Len(rm.trade_history) < MaxTrades
        /\ rm' = remove_position(rm, symbol, today)
        /\ last' = Op("remove_position", symbol, "", "", <<>>,
                      IF HasPosition(rm, symbol) THEN <<get_position(rm, symbol)>>
                      ELSE <<>>)
        /\ UNCHANGED <<config, today>>
        /\ BotUnchanged

RMCheckLimits ==
    \E symbol \in SymbolSet :
        /\ rm' = reset_daily_metrics(rm, today)
        /\ last' = Op("check_risk_limits", symbol, "", "", <<>>,
                      check_risk_limits(config, rm', symbol))
        /\ UNCHANGED <<config, today>>
        /\ BotUnchanged

RMMetrics ==
    /\ rm' = calculate_risk_metrics(config, rm, today)
    /\ last' = Op("calculate_risk_metrics", "", "", "", <<>>,
                  RiskMetrics(config, rm, today))
    /\ UNCHANGED <<config, today>>
    /\ BotUnchanged

NextRM ==
    \/ RMAddPosition
    \/ RMUpdatePrice
    \/ RMRemovePosition
    \/ RMCheckLimits
    \/ RMMetrics

SpecRM == InitRM /\ [][NextRM]_vars

\* the five conditions of check_risk_limits, on the state the call left
DailyCapHit == rm.daily_trades >= config.max_daily_trades
ConcurrentCapHit == Cardinality(KeySet(rm)) >= config.max_concurrent_positions
SymbolOpen(symbol) == \E i \in 1..Len(rm.positions) : rm.positions[i].symbol = symbol
DrawdownHit == RLt(config.max_drawdown, rm.max_drawdown)
EmergencyHit == RLt(config.emergency_stop_loss, rm.max_drawdown)

LimitOrder == <<"max_daily_trades", "max_concurrent_positions", "symbol_has_position",
                "max_drawdown", "emergency_stop_loss">>

Applies(reason, symbol) ==
    CASE reason = "max_daily_trades" -> DailyCapHit
      [] reason = "max_concurrent_positions" -> ConcurrentCapHit
      [] reason = "symbol_has_position" -> SymbolOpen(symbol)
      [] reason = "max_drawdown" -> DrawdownHit
      [] reason = "emergency_stop_loss" -> EmergencyHit
      [] OTHER -> FALSE

FailingChecks(symbol) == {i \in 1..Len(LimitOrder) : Applies(LimitOrder[i], symbol)}

DaySymbol == symbols[1]
DayAmount == RInt(3)
DayEntryPrice == RInt(100)
DayMarkPrice == RInt(70)

InitDay ==
    /\ config \in BotConfigs
    /\ trading_enabled = TRUE
    /\ BotInit

DayOpen ==
    /\ rm.daily_trades < MaxOpens
    /\ rm' = add_position(rm, DaySymbol, "long", DayAmount, DayEntryPrice, today)
    /\ last' = Op("add_position", DaySymbol, "", "", <<>>, <<>>)
    /\ UNCHANGED <<config, today>>
    /\ BotUnchanged

DayMark ==
    /\ rm' = update_position_price(rm, DaySymbol, DayMarkPrice)
    /\ last' = Op("update_position_price", DaySymbol, "", "", <<>>, <<>>)
    /\ UNCHANGED <<config, today>>
    /\ BotUnchanged

DayClose ==
    /\ Len(rm.trade_history) < MaxTrades
    /\ rm' = remove_position(rm, DaySymbol, today)
    /\ last' = Op("remove_position", DaySymbol, "", "", <<>>, <<>>)
    /\ UNCHANGED <<config, today>>
    /\ BotUnchanged

DayReset ==
    /\ rm' = reset_daily_metrics(rm, today)
    /\ last' = Op("reset_daily_metrics", "", "", "", <<>>, <<>>)
    /\ UNCHANGED <<config, today>>
    /\ BotUnchanged

NextDay ==
    \/ DayOpen
    \/ DayMark
    \/ DayClose
    \/ DayReset
    \/ RMCheckLimits
    \/ RMMetrics
    \/ AdvanceDay

SpecDay == InitDay /\ [][NextDay]_vars

\* the calls that begin with reset_daily_metrics
ResetCallers == {"reset_daily_metrics", "check_risk_limits", "calculate_risk_metrics"}

(***************************************************************************)
(* C11: daily_trades and daily_pnl are reset to zero by the first call     *)
(* that observes a date other than last_reset_date, which then becomes the *)
(* observed date; a call on an unchanged date leaves both counters         *)
(* untouched, and no other operation resets them or moves last_reset_date. *)
(***************************************************************************)
C11_ResetOncePerDateChange ==
    [][ /\ (last'.op \in ResetCallers /\ today # rm.last_reset_date) =>
              /\ rm'.daily_trades = 0
              /\ rm'.daily_pnl = Zero
              /\ rm'.last_reset_date = today
        /\ (last'.op \in ResetCallers /\ today = rm.last_reset_date) =>
              /\ rm'.daily_trades = rm.daily_trades
              /\ rm'.daily_pnl = rm.daily_pnl
              /\ rm'.last_reset_date = rm.last_reset_date
        /\ last'.op \notin ResetCallers =>
              /\ rm'.last_reset_date = rm.last_reset_date
              /\ rm'.daily_trades >= rm.daily_trades
              /\ (rm'.daily_pnl # rm.daily_pnl => last'.op = "remove_position")
      ]_vars

\* a reset has just zeroed counters that a trade of an earlier date had moved
C11_Witness ==
    /\ last.op = "reset_daily_metrics"
    /\ today > 0
    /\ rm.last_reset_date = today
    /\ rm.daily_trades = 0
    /\ rm.daily_pnl = Zero
    /\ rm.positions # <<>>
    /\ \E i \in 1..Len(rm.trade_history) : rm.trade_history[i].pnl # Zero

\* totalBalance + the sum of unrealized PnL over the live positions of r
BalanceOf(r) ==
    RAdd(config.max_position_size,
         RSum([i \in 1..Len(r.positions) |-> r.positions[i].unrealized_pnl]))

(***************************************************************************)
(* C12: peak_balance never decreases, max_drawdown never decreases and is  *)
(* never negative; a calculate_risk_metrics call raises peak_balance to    *)
(* the current balance when that is higher and folds                       *)
(* max(0, (peak_balance - currentBalance) / peak_balance) into             *)
(* max_drawdown, which is what it reports.                                 *)
(***************************************************************************)
C12_PeakAndDrawdownMonotone ==
    [][ /\ RLe(rm.peak_balance, rm'.peak_balance)
        /\ RLe(rm.max_drawdown, rm'.max_drawdown)
        /\ RLe(Zero, rm'.max_drawdown)
        /\ last'.op = "calculate_risk_metrics" =>
              LET cur == BalanceOf(rm)
                  peak == rm'.peak_balance
                  dd == IF RLt(Zero, peak)
                        THEN RMax(Zero, RDiv(RSub(peak, cur), peak))
                        ELSE Zero
              IN  /\ peak = RMax(rm.peak_balance, cur)
                  /\ rm'.max_drawdown = RMax(rm.max_drawdown, dd)
                  /\ last'.result.max_drawdown = rm'.max_drawdown
      ]_vars

\* metrics computed below a peak that an earlier profit had raised
C12_Witness ==
    /\ last.op = "calculate_risk_metrics"
    /\ RLt(config.max_position_size, rm.peak_balance)
    /\ RLt(BalanceOf(rm), rm.peak_balance)
    /\ RLt(Zero, rm.max_drawdown)

(***************************************************************************)
(* SpecPnl: positions of either side are opened and marked at prices       *)
(* around the stop-loss and profit-target boundaries, and                  *)
(* should_close_position is asked at any time.                             *)
(***************************************************************************)
PnlConfigs ==
    { [DefaultRisk EXCEPT !.stop_loss = x, !.profit_target = x] :
        x \in {R(5, 100), Zero} }

PnlAmounts == {RInt(1), RInt(3)}
PnlEntryPrice == RInt(100)
PnlPrices == {RInt(94), RInt(95), RInt(96), RInt(100), RInt(104), RInt(105), RInt(106)}

InitPnl ==
    /\ config \in PnlConfigs
    /\ trading_enabled = TRUE
    /\ BotInit

PnlOpen ==
    \E symbol \in SymbolSet, side \in Sides, amount \in PnlAmounts :
        /\ rm.daily_trades < MaxOpens
        /\ rm' = add_position(rm, symbol, side, amount, PnlEntryPrice, today)
        /\ last' = NoOp
        /\ UNCHANGED <<config, today>>
        /\ BotUnchanged

PnlMark ==
    \E symbol \in SymbolSet, price \in PnlPrices :
        /\ rm' = update_position_price(rm, symbol, price)
        /\ last' = Op("update_position_price", symbol, "", "", <<price>>, <<>>)
        /\ UNCHANGED <<config, today>>
        /\ BotUnchanged

PnlShouldClose ==
    \E symbol \in SymbolSet :
        /\ rm' = rm
        /\ last' = Op("should_close_position", symbol, "", "", <<>>,
                      [close  |-> should_close_position(config, rm, symbol),
                       reason |-> should_close_reason(config, rm, symbol)])
        /\ UNCHANGED <<config, today>>
        /\ BotUnchanged

NextPnl ==
    \/ PnlOpen
    \/ PnlMark
    \/ PnlShouldClose

SpecPnl == InitPnl /\ [][NextPnl]_vars

(***************************************************************************)
(* C13: update_position_price on an open symbol sets current_price and     *)
(* recomputes unrealized_pnl = (current_price - entry_price) * amount for  *)
(* a long position, (entry_price - current_price) * amount for a short     *)
(* one, and unrealized_pnl_percent = unrealized_pnl / (entry_price *       *)
(* amount); it changes nothing else of the position.                       *)
(***************************************************************************)
C13_MarkPriceRecomputesPnl ==
    [][ (last'.op = "update_position_price" /\ HasPosition(rm, last'.symbol)) =>
            LET old == get_position(rm, last'.symbol)
                price == last'.args[1]
                pnl == IF old.side = "long"
                       THEN RMul(RSub(price, old.entry_price), old.amount)
                       ELSE RMul(RSub(old.entry_price, price), old.amount)
            IN  /\ HasPosition(rm', last'.symbol)
                /\ get_position(rm', last'.symbol) =
                       [old EXCEPT !.current_price = price,
                                   !.unrealized_pnl = pnl,
                                   !.unrealized_pnl_percent =
                                       RDiv(pnl, RMul(old.entry_price, old.amount))]
      ]_vars

\* a short position has just been marked below its entry price: a profit
C13_Witness ==
    /\ last.op = "update_position_price"
    /\ HasPosition(rm, last.symbol)
    /\ get_position(rm, last.symbol).side = "short"
    /\ get_position(rm, last.symbol).amount = RInt(3)
    /\ get_position(rm, last.symbol).current_price = RInt(94)
    /\ get_position(rm, last.symbol).unrealized_pnl = RInt(18)
    /\ get_position(rm, last.symbol).unrealized_pnl_percent = R(6, 100)

(***************************************************************************)
(* C14: should_close_position returns true exactly when the position's     *)
(* unrealized_pnl_percent is <= -stop_loss (reason stop loss, tested       *)
(* first) or >= profit_target (reason take profit), both inclusive, and    *)
(* false otherwise.                                                        *)
(***************************************************************************)
C14_ShouldCloseAtThresholds ==
    (last.op = "should_close_position" /\ HasPosition(rm, last.symbol)) =>
        LET pct == get_position(rm, last.symbol).unrealized_pnl_percent
            stop == RLe(pct, RNeg(config.stop_loss))
            take == RLe(config.profit_target, pct)
        IN  /\ last.result.close <=> (stop \/ take)
            /\ stop => last.result.reason = "stop_loss"
            /\ (~stop /\ take) => last.result.reason = "profit_target"
            /\ (~stop /\ ~take) => last.result.reason = "normal"

\* the example: long, entry 100, marked at 94, stop_loss 0.05
C14_Witness ==
    /\ last.op = "should_close_position"
    /\ HasPosition(rm, last.symbol)
    /\ get_position(rm, last.symbol).side = "long"
    /\ get_position(rm, last.symbol).entry_price = RInt(100)
    /\ get_position(rm, last.symbol).current_price = RInt(94)
    /\ config.stop_loss = R(5, 100)
    /\ last.result.close
    /\ last.result.reason = "stop_loss"

\* a position exactly at the stop-loss boundary is closed
C14_WitnessBoundary ==
    /\ last.op = "should_close_position"
    /\ HasPosition(rm, last.symbol)
    /\ get_position(rm, last.symbol).unrealized_pnl_percent = R(-5, 100)
    /\ config.stop_loss = R(5, 100)
    /\ last.result.close

(***************************************************************************)
(* C15: remove_position on a symbol with no open position fails (it        *)
(* returns None) and leaves the positions, the trade history and daily_pnl *)
(* unchanged.                                                              *)
(***************************************************************************)
C15_CloseMissingChangesNothing ==
    [][ (last'.op = "remove_position" /\ ~HasPosition(rm, last'.symbol)) =>
            /\ last'.result = <<>>
            /\ rm'.positions = rm.positions
            /\ rm'.trade_history = rm.trade_history
            /\ rm'.daily_pnl = rm.daily_pnl
      ]_vars

\* a failed close while another symbol is open and a trade is on record
C15_Witness ==
    /\ last.op = "remove_position"
    /\ last.result = <<>>
    /\ rm.positions # <<>>
    /\ rm.trade_history # <<>>
    /\ rm.daily_pnl # Zero

\* the unrealized PnL of a position at its current price
PnlOf(p) ==
    IF p.side = "long" THEN RMul(RSub(p.current_price, p.entry_price), p.amount)
    ELSE RMul(RSub(p.entry_price, p.current_price), p.amount)

(***************************************************************************)
(* C16: remove_position on an open symbol removes it from the positions,   *)
(* leaves the other positions alone, appends exactly one trade record for  *)
(* the symbol whose pnl is the unrealized PnL at the last marked price (0  *)
(* when the position was never marked), and adds that pnl to daily_pnl.    *)
(***************************************************************************)
C16_OpenCloseRoundTrip ==
    [][ (last'.op = "remove_position" /\ HasPosition(rm, last'.symbol)) =>
            LET p == get_position(rm, last'.symbol)
                n == Len(rm.trade_history)
            IN  /\ last'.result = <<p>>
                /\ ~HasPosition(rm', last'.symbol)
                /\ rm'.positions = SelectSeq(rm.positions,
                                             LAMBDA q : q.symbol # last'.symbol)
                /\ Len(rm'.trade_history) = n + 1
                /\ SubSeq(rm'.trade_history, 1, n) = rm.trade_history
                /\ rm'.trade_history[n + 1].symbol = last'.symbol
                /\ rm'.trade_history[n + 1].pnl = PnlOf(p)
                /\ rm'.daily_pnl = RAdd(rm.daily_pnl, PnlOf(p))
      ]_vars

\* a marked position has just been closed at a loss or a profit
C16_Witness ==
    /\ last.op = "remove_position"
    /\ last.result # <<>>
    /\ rm.trade_history # <<>>
    /\ rm.trade_history[Len(rm.trade_history)].pnl # Zero
    /\ rm.daily_pnl = rm.trade_history[Len(rm.trade_history)].pnl

\* a position that was never marked has just been closed
C16_WitnessUnmarked ==
    /\ last.op = "remove_position"
    /\ last.result # <<>>
    /\ rm.trade_history # <<>>
    /\ rm.trade_history[Len(rm.trade_history)].pnl = Zero
    /\ rm.trade_history[Len(rm.trade_history)].exit_price =
           rm.trade_history[Len(rm.trade_history)].entry_price

(***************************************************************************)
(* C17: right after a calculate_risk_metrics call, with no mutation and no *)
(* date change in between, a second call returns the same RiskMetrics and  *)
(* leaves peak_balance and max_drawdown as they are.                       *)
(***************************************************************************)
C17_MetricsIdempotent ==
    last.op = "calculate_risk_metrics" =>
        /\ RiskMetrics(config, rm, today) = last.result
        /\ calculate_risk_metrics(config, rm, today).peak_balance = rm.peak_balance
        /\ calculate_risk_metrics(config, rm, today).max_drawdown = rm.max_drawdown

\* metrics computed during a drawdown, with a closed trade on record
C17_Witness ==
    /\ last.op = "calculate_risk_metrics"
    /\ RLt(BalanceOf(rm), rm.peak_balance)
    /\ rm.trade_history # <<>>
    /\ last.result.max_drawdown = rm.max_drawdown

C18_WitnessExposure ==
    /\ last.op = "calculate_risk_metrics"
    /\ rm.positions # <<>>
    /\ last.result.total_exposure = RInt(210)
    /\ last.result.win_rate = One

\* two closed trades with different returns: the ratio is not zero
C18_WitnessSharpe ==
    /\ last.op = "calculate_risk_metrics"
    /\ Len(rm.trade_history) = 2
    /\ last.result.sharpe_ratio # SharpeZero
    /\ last.result.win_rate = R(1, 2)

(***************************************************************************)
(* SpecLevel: _determine_risk_level applied to drawdowns, daily trade      *)
(* counts and win rates on both sides of each of its thresholds.           *)
(***************************************************************************)
LevelDrawdowns == {Zero, R(5, 100), R(6, 100), R(10, 100), R(11, 100),
                   R(15, 100), R(16, 100)}
LevelTrades == {0, 20, 21, 30, 31, 40, 41}
LevelWinRates == {Zero, R(29, 100), R(30, 100), R(39, 100), R(40, 100),
                  R(49, 100), R(50, 100), One}

InitLevel ==
    /\ config = DefaultRisk
    /\ trading_enabled = TRUE
    /\ BotInit

LevelCall ==
    \E drawdown \in LevelDrawdowns, daily_trades \in LevelTrades,
       win_rate \in LevelWinRates :
        /\ last' = Op("determine_risk_level", "", "", "",
                      <<drawdown, daily_trades, win_rate>>,
                      determine_risk_level(drawdown, daily_trades, win_rate))
        /\ UNCHANGED <<config, rm, today>>
        /\ BotUnchanged

NextLevel == LevelCall

SpecLevel == InitLevel /\ [][NextLevel]_vars

\* the position of a level in Low < Medium < High < Critical
LevelIndex(level) == CHOOSE i \in 1..Len(RiskLevel) : RiskLevel[i] = level

\* the level each argument triggers on its own
DrawdownLevel(d) ==
    IF RLt(R(15, 100), d) THEN 4 ELSE IF RLt(R(10, 100), d) THEN 3
    ELSE IF RLt(R(5, 100), d) THEN 2 ELSE 1
TradesLevel(n) == IF n > 40 THEN 4 ELSE IF n > 30 THEN 3 ELSE IF n > 20 THEN 2 ELSE 1
WinRateLevel(w) ==
    IF RLt(w, R(30, 100)) THEN 4 ELSE IF RLt(w, R(40, 100)) THEN 3
    ELSE IF RLt(w, R(50, 100)) THEN 2 ELSE 1

Max3(a, b, c) ==
    IF a >= b /\ a >= c THEN a ELSE IF b >= c THEN b ELSE c

(***************************************************************************)
(* C19: the risk level is the worst of the levels that drawdown, daily     *)
(* trades and win rate each trigger, and it is monotone: of two calls, the *)
(* one with drawdown and daily trades at least as high and win rate at     *)
(* most as high never reports the lower level.                             *)
(***************************************************************************)
C19_RiskLevelWorstWinsMonotone ==
    [][ /\ last'.op = "determine_risk_level" =>
              LevelIndex(last'.result) =
                  Max3(DrawdownLevel(last'.args[1]), TradesLevel(last'.args[2]),
                       WinRateLevel(last'.args[3]))
        /\ ( /\ last.op = "determine_risk_level"
             /\ last'.op = "determine_risk_level"
             /\ RLe(last.args[1], last'.args[1])
             /\ last.args[2] <= last'.args[2]
             /\ RLe(last'.args[3], last.args[3]) ) =>
              LevelIndex(last.result) <= LevelIndex(last'.result)
      ]_vars

\* daily trades alone trigger High while the win rate triggers only Medium
C19_Witness ==
    /\ last.op = "determine_risk_level"
    /\ last.args = <<R(5, 100), 31, R(49, 100)>>
    /\ last.result = "high"

(***************************************************************************)
(* C20: is_running becomes true only by a start whose exchange and         *)
(* strategy initialization both succeeded; when either fails or raises,    *)
(* initialize returns False, the bot stays idle and no cycle is scheduled; *)
(* a cycle is started only while the bot is running, so none ever runs     *)
(* after a failed initialization.                                          *)
(***************************************************************************)
C20_RunningOnlyAfterInitialization ==
    [][ /\ (is_running' /\ ~is_running) =>
              /\ last'.op = "initialize"
              /\ last'.args = <<"ok", "ok">>
              /\ last'.result = <<TRUE>>
              /\ active_exchange' /\ active_strategy'
        /\ (last'.op = "initialize" /\ last'.args # <<"ok", "ok">>) =>
              /\ last'.result = <<FALSE>>
              /\ ~is_running'
              /\ tasks' = tasks
        /\ Cardinality(CyclesInFlight') > Cardinality(CyclesInFlight) => is_running
        /\ (started' /\ ~active_strategy') => (~is_running' /\ CyclesInFlight' = {})
      ]_vars

\* the exchanges connected but the strategy could not be created
C20_Witness ==
    /\ last.op = "initialize"
    /\ last.args = <<"ok", "fail">>
    /\ last.result = <<FALSE>>
    /\ active_exchange
    /\ ~is_running

\* after a successful start a cycle is in flight
C20_WitnessRunning ==
    /\ started
    /\ is_running
    /\ CyclesInFlight # {}

(***************************************************************************)
(* The order of the steps of one decision cycle                            *)
(***************************************************************************)
\* the step of _execute_trading_cycle a task is suspended in: 1 marks the
\* prices, 2 evaluates the exits, 3 evaluates the entries
StepOf(pc) ==
    CASE pc = "upd_ticker" -> 1
      [] pc \in {"close_ticker", "close_order"} -> 2
      [] pc \in {"klines", "entry_order"} -> 3
      [] OTHER -> 0

\* the step the call recorded in the history belongs to
StepOfOp(op) ==
    CASE op = "ticker" -> 1
      [] op \in {"close_ticker", "close_ack"} -> 2
      [] op \in {"klines", "entry_ack"} -> 3
      [] OTHER -> 0

CycleStepTaken == last'.by = "cycle" /\ StepOfOp(last'.op) > 0

\* C21: within one decision cycle the steps run in the order mark prices,
\* evaluate exits, evaluate entries, recompute the risk metrics: a cycle
\* resumed in one step goes on in that step or a later one and never in an
\* earlier one (so no entry is evaluated before the exits of the cycle are
\* done), it evaluates entries only if trading is enabled, and when it ends
\* the risk metrics have just been recomputed
C21_CycleStepOrder ==
    [][ /\ \A t \in TaskIds :
            tasks'[t].kind = "cycle" /\ StepOf(tasks'[t].pc) = 3 => trading_enabled'
        /\ CycleStepTaken =>
            LET next == last'.result
            IN  /\ next # Idle =>
                    /\ \E t \in TaskIds : tasks'[t] = next
                    /\ next.kind = "cycle"
                    /\ StepOf(next.pc) >= StepOfOp(last'.op)
                /\ next = Idle =>
                    /\ calculate_risk_metrics(config, rm', today) = rm'
                    /\ Cardinality(CyclesInFlight') < Cardinality(CyclesInFlight)
      ]_vars

\* a cycle that marked a position goes on to close it, and a cycle whose
\* exits are done is fetching the candles of a symbol
C21_Witness ==
    /\ last.by = "cycle"
    /\ last.op = "ticker"
    /\ last.result.pc = "close_ticker"

C21_WitnessEntries ==
    /\ last.by = "cycle"
    /\ last.op = "close_ack"
    /\ last.result.pc = "klines"

C21_WitnessMetrics ==
    /\ last.by = "cycle"
    /\ last.op = "klines"
    /\ last.result = Idle
    /\ rm.peak_balance # Zero

(***************************************************************************)
(* A failure while handling one symbol is confined to that symbol          *)
(***************************************************************************)
\* what a cycle does next: await a call for a symbol, or end
Awaiting(pc, sym) == [pc |-> pc, sym |-> sym]
CycleEnds == Awaiting("idle", "")

\* the first symbol of syms that satisfies Test, or "" if there is none
FirstThat(syms, Test(_)) ==
    IF \E i \in 1..Len(syms) : Test(syms[i])
    THEN syms[CHOOSE i \in 1..Len(syms) :
                  Test(syms[i]) /\ \A j \in 1..(i - 1) : ~Test(syms[j])]
    ELSE ""

\* the entries step over the symbols after the i-th one: the candles of the
\* first symbol without a position are fetched
EntriesAfter(r, i) ==
    LET s == FirstThat(SubSeq(symbols, i + 1, Len(symbols)),
                       LAMBDA x : ~HasPosition(r, x))
    IN  IF s = "" THEN CycleEnds ELSE Awaiting("klines", s)

EntriesStep(r) ==
    IF trading_enabled /\ active_exchange /\ active_strategy
    THEN EntriesAfter(r, 0) ELSE CycleEnds

\* the exits step over the symbols left: the first position that reached a
\* threshold is closed, and the entries step follows the last one
ExitsOver(r, syms) ==
    LET s == FirstThat(syms, LAMBDA x : should_close_position(config, r, x))
    IN  IF s = "" \/ ~active_exchange THEN EntriesStep(r)
        ELSE Awaiting("close_ticker", s)

ExitsStep(r) == IF active_exchange THEN ExitsOver(r, Keys(r)) ELSE EntriesStep(r)

\* the rest of the cycle after the call recorded in h
RestOfCycle(h, r) ==
    CASE h.op = "ticker" ->
            IF h.args[1] = <<>> THEN ExitsStep(r)
            ELSE Awaiting("upd_ticker", Head(h.args[1]))
      [] h.op \in {"close_ticker", "close_ack"} -> ExitsOver(r, h.args[1])
      [] h.op \in {"klines", "entry_ack"} -> EntriesAfter(r, h.args[1])

\* C22: an exception raised by a call for one symbol in a step of a cycle is
\* confined to that symbol: the risk state is left as it was, the step goes
\* on with its next symbol, and after its last symbol the later steps of the
\* cycle run, down to the recomputation of the risk metrics
C22_FailureConfinedToSymbol ==
    [][ (CycleStepTaken /\ last'.status = Raise) =>
            LET next == last'.result
            IN  /\ Awaiting(next.pc, next.sym) = RestOfCycle(last', rm)
                /\ next # Idle => /\ rm' = rm
                                  /\ \E t \in TaskIds : tasks'[t] = next
                /\ next = Idle => rm' = calculate_risk_metrics(config, rm, today)
      ]_vars

\* get_klines raised for the first symbol and the candles of the second one
\* are fetched
C22_Witness ==
    /\ last.by = "cycle"
    /\ last.op = "klines"
    /\ last.status = Raise
    /\ last.symbol = symbols[1]
    /\ last.result.pc = "klines"
    /\ last.result.sym = symbols[2]

\* get_ticker raised while the price of the last position was marked and
\* the exits step closes a position
C22_WitnessLaterStep ==
    /\ last.by = "cycle"
    /\ last.op = "ticker"
    /\ last.status = Raise
    /\ last.args[1] = <<>>
    /\ last.result.pc = "close_ticker"

\* the closing order of one position raised and the next position is closed
C22_WitnessClose ==
    /\ last.by = "cycle"
    /\ last.op = "close_ack"
    /\ last.status = Raise
    /\ last.result.pc \in {"close_ticker", "klines"}

(***************************************************************************)
(* When a cycle submits an entry order                                     *)
(***************************************************************************)
\* a cycle task suspended at the create_order of an entry that was not
\* suspended there before the step
NewEntryOrders ==
    {t \in TaskIds : /\ tasks'[t].kind = "cycle"
                     /\ tasks'[t].pc = "entry_order"
                     /\ \A u \in TaskIds : tasks[u] # tasks'[t]}

\* C23: a cycle submits an entry order only when the strategy has just
\* answered with a signal other than hold for a configured symbol that has
\* no open position, check_risk_limits allows the trade and
\* calculate_position_size then returns a quantity above 0, which is the
\* quantity of the order; when one of these fails the cycle submits no
\* order for the symbol and goes on with the symbols after it
C23_EntryOrderPreconditions ==
    [][ /\ \A t \in NewEntryOrders :
            /\ last'.op = "klines"
            /\ last'.result = tasks'[t]
        /\ last'.op = "klines" =>
            LET sym == last'.symbol
                signalled == last'.status \in TradeSignals
                r == reset_daily_metrics(rm, today)
                size == IF signalled
                        THEN calculate_position_size(config, last'.args[3],
                                                     last'.args[2])
                        ELSE Zero
                submit == /\ sym \in SymbolSet
                          /\ ~HasPosition(rm, sym)
                          /\ signalled
                          /\ active_exchange
                          /\ check_risk_limits(config, r, sym).allowed
                          /\ RLt(Zero, size)
            IN  /\ submit => /\ last'.result.pc = "entry_order"
                             /\ last'.result.sym = sym
                             /\ last'.result.amount = size
                             /\ nOrders' = nOrders + 1
                /\ ~submit => /\ last'.result.pc # "entry_order"
                              /\ nOrders' = nOrders
                              /\ Awaiting(last'.result.pc, last'.result.sym)
                                    = EntriesAfter(rm, last'.args[1])
      ]_vars

\* an entry order was submitted on a buy signal
C23_Witness ==
    /\ last.op = "klines"
    /\ last.status = "buy"
    /\ last.result.pc = "entry_order"
    /\ RLt(Zero, last.result.amount)

\* a buy signal whose size is 0 submitted nothing
C23_WitnessNoSize ==
    /\ last.op = "klines"
    /\ last.status = "buy"
    /\ last.args[2] = Zero
    /\ check_risk_limits(config, rm, last.symbol).allowed
    /\ last.result.pc # "entry_order"

\* a buy signal for a symbol whose position was opened while the candles
\* were fetched submitted nothing
C23_WitnessDenied ==
    /\ last.op = "klines"
    /\ last.status = "buy"
    /\ last.args[2] = One
    /\ active_exchange
    /\ HasPosition(rm, last.symbol)
    /\ last.result.pc # "entry_order"

(***************************************************************************)
(* Shutdown                                                                *)
(***************************************************************************)
StopInFlight == \E t \in TaskIds : tasks[t].kind = "stop"

\* C24: shutdown happens in order: once stop has begun no cycle is
\* triggered, the positions are force-closed and the connections released
\* only when no cycle is in flight any more, and no cycle is in flight once
\* the connections are released
C24_ShutdownOrder ==
    /\ StopInFlight => ~is_running
    /\ StopInFlight => CyclesInFlight = {}
    /\ (started /\ ~active_exchange) => CyclesInFlight = {}

\* C25: once shutdown has been requested, a cycle in flight finishes the
\* step it is in and starts no further step; in particular it submits no
\* new entry order
C25_NoFurtherStepAfterShutdown ==
    [][ (CycleStepTaken /\ ~is_running) =>
            /\ last'.result # Idle => StepOf(last'.result.pc) = StepOfOp(last'.op)
            /\ StepOfOp(last'.op) < 3 => NewEntryOrders = {}
      ]_vars

(***************************************************************************)
(* trading_strategies.py: indicators and strategies over a history of      *)
(* closes.  The values of a pandas Series are floats: a finite value is a  *)
(* rational <<n, d>> with d > 0, and the results of a division by zero are *)
(* the values NaN, Inf and NegInf.  Float rounding is not modelled.        *)
(***************************************************************************)
MaxHistory == 4    \* candles of a history handed to a strategy

NaN == <<0, 0>>
Inf == <<1, 0>>
NegInf == <<-1, 0>>
IsNaN(x) == x = NaN
IsFinite(x) == x[2] # 0

FNeg(a) == <<-a[1], a[2]>>

FAdd(a, b) ==
    IF IsNaN(a) \/ IsNaN(b) THEN NaN
    ELSE IF IsFinite(a) /\ IsFinite(b) THEN RAdd(a, b)
    ELSE IF IsFinite(a) THEN b
    ELSE IF IsFinite(b) \/ a = b THEN a
    ELSE NaN

FSub(a, b) == FAdd(a, FNeg(b))

FMul(a, b) ==
    IF IsNaN(a) \/ IsNaN(b) THEN NaN
    ELSE IF IsFinite(a) /\ IsFinite(b) THEN RMul(a, b)
    ELSE IF a[1] = 0 \/ b[1] = 0 THEN NaN
    ELSE IF (a[1] < 0) = (b[1] < 0) THEN Inf ELSE NegInf

\* numpy float division: x / 0 is an infinity, 0 / 0 is NaN, nothing raises
FDiv(a, b) ==
    IF IsNaN(a) \/ IsNaN(b) THEN NaN
    ELSE IF IsFinite(a) /\ IsFinite(b)
    THEN IF b[1] # 0 THEN RDiv(a, b)
         ELSE IF a[1] = 0 THEN NaN
         ELSE IF a[1] > 0 THEN Inf ELSE NegInf
    ELSE IF IsFinite(a) THEN Zero
    ELSE IF IsFinite(b) THEN (IF (b[1] < 0) = (a[1] < 0) THEN Inf ELSE NegInf)
    ELSE NaN

\* a comparison with NaN is False
FLt(a, b) ==
    /\ ~IsNaN(a)
    /\ ~IsNaN(b)
    /\ IF IsFinite(a) /\ IsFinite(b) THEN RLt(a, b)
       ELSE a # b /\ (a = NegInf \/ b = Inf)

FLe(a, b) == ~IsNaN(a) /\ ~IsNaN(b) /\ (a = b \/ FLt(a, b))

FAbs(a) == <<Abs(a[1]), a[2]>>

\* Python's min(a, b): b if b < a, else a (so min(NaN, 1.0) is NaN)
FMin(a, b) == IF FLt(b, a) THEN b ELSE a

\* series.iloc[-k] of a series that has at least k values
ILoc(series, k) == series[Len(series) + 1 - k]

\* series.rolling(window).mean(): NaN until the window is full
Rolling(series, window) ==
    [t \in 1..Len(series) |->
        IF t < window THEN NaN
        ELSE RDiv(RSum(SubSeq(series, t - window + 1, t)), RInt(window))]

IsSquare(n) == \E k \in 0..n : k * k = n
ISqrt(n) == CHOOSE k \in 0..n : k * k = n
HasRationalRoot(x) == x[1] >= 0 /\ IsSquare(x[1]) /\ IsSquare(x[2])
RSqrt(x) == <<ISqrt(x[1]), ISqrt(x[2])>>

\* the sample variance (ddof = 1) of the window that ends at t
WindowVariance(series, window, t) ==
    LET w == SubSeq(series, t - window + 1, t)
        m == RDiv(RSum(w), RInt(window))
    IN  RDiv(RSum([i \in 1..window |-> RMul(RSub(w[i], m), RSub(w[i], m))]),
             RInt(window - 1))

\* series.rolling(window).std(): NaN until the window is full and for a
\* window of one value
RollingStd(series, window) ==
    [t \in 1..Len(series) |->
        IF t < window \/ window < 2 THEN NaN
        ELSE RSqrt(WindowVariance(series, window, t))]

\* delta.where(delta > 0, 0) and -delta.where(delta < 0, 0) of
\* delta = close.diff(), whose first value is NaN
Gains(data) ==
    [t \in 1..Len(data) |->
        IF t > 1 /\ RLt(data[t - 1], data[t]) THEN RSub(data[t], data[t - 1])
        ELSE Zero]
Losses(data) ==
    [t \in 1..Len(data) |->
        IF t > 1 /\ RLt(data[t], data[t - 1]) THEN RSub(data[t - 1], data[t])
        ELSE Zero]

\* RSI.calculate
RSI(data, period) ==
    LET gain == Rolling(Gains(data), period)
        loss == Rolling(Losses(data), period)
    IN  [t \in 1..Len(data) |->
            LET rs == FDiv(gain[t], loss[t])
            IN  FSub(RInt(100), FDiv(RInt(100), FAdd(One, rs)))]

RECURSIVE RPow(_, _)
RPow(q, i) == IF i = 0 THEN One ELSE RMul(q, RPow(q, i - 1))

\* series.ewm(span=span).mean() (adjust=True): the average of the values so
\* far with weights (1 - alpha)^i, alpha = 2 / (span + 1)
EWM(series, span) ==
    LET q == RSub(One, R(2, span + 1))
    IN  [t \in 1..Len(series) |->
            RDiv(RSum([j \in 1..t |-> RMul(RPow(q, j - 1), series[t + 1 - j])]),
                 RSum([j \in 1..t |-> RPow(q, j - 1)]))]

\* MACD.calculate
MACD(data, fast, slow, signal) ==
    LET ema_fast == EWM(data, fast)
        ema_slow == EWM(data, slow)
        macd_line == [t \in 1..Len(data) |-> RSub(ema_fast[t], ema_slow[t])]
    IN  [macd |-> macd_line, signal |-> EWM(macd_line, signal)]

\* BollingerBands.calculate
BollingerBands(data, period, std_dev) ==
    LET sma == Rolling(data, period)
        std == RollingStd(data, period)
    IN  [upper  |-> [t \in 1..Len(data) |-> FAdd(sma[t], FMul(std[t], std_dev))],
         middle |-> sma,
         lower  |-> [t \in 1..Len(data) |-> FSub(sma[t], FMul(std[t], std_dev))]]

\* MovingAverage.calculate
MovingAverage(data, period) == Rolling(data, period)

\* TradingSignal; the reason strings are modelled by the branch they name
TradingSignal(signal, strength, price, reason) ==
    [signal |-> signal, strength |-> strength, price |-> price, reason |-> reason]

\* data.iloc[-1] of an empty DataFrame raises IndexError
IndexError == TradingSignal(Raise, Zero, Zero, "IndexError")

InsufficientData(data) ==
    IF data = <<>> THEN IndexError
    ELSE TradingSignal("hold", Zero, ILoc(data, 1), "insufficient_data")

Max2(a, b) == IF a < b THEN b ELSE a

RSIMACDLevelTriggered(cfg, data) ==
    IF Len(data) < Max2(cfg.macd_slow, cfg.rsi_period) THEN InsufficientData(data)
    ELSE
    LET macd_data == MACD(data, cfg.macd_fast, cfg.macd_slow, cfg.macd_signal)
        current_rsi == ILoc(RSI(data, cfg.rsi_period), 1)
        current_macd == ILoc(macd_data.macd, 1)
        current_signal == ILoc(macd_data.signal, 1)
        current_price == ILoc(data, 1)
    IN  IF FLt(current_rsi, cfg.rsi_oversold) /\ FLt(current_signal, current_macd)
        THEN TradingSignal("buy",
                 FMin(FDiv(FSub(cfg.rsi_oversold, current_rsi), RInt(30)), One),
                 current_price, "rsi_oversold_macd_golden_cross")
        ELSE IF FLt(cfg.rsi_overbought, current_rsi)
                /\ FLt(current_macd, current_signal)
        THEN TradingSignal("sell",
                 FMin(FDiv(FSub(current_rsi, cfg.rsi_overbought), RInt(30)), One),
                 current_price, "rsi_overbought_macd_death_cross")
        ELSE TradingSignal("hold", Zero, current_price, "no_clear_signal")

\* RSIMACDStrategy.generate_signal; the conditions of the if and the elif
\* are evaluated left to right, and macd.iloc[-2] of a one-candle history
\* raises IndexError when it is reached
RSIMACDStrategy(cfg, data) ==
    IF Len(data) < Max2(cfg.macd_slow, cfg.rsi_period) THEN InsufficientData(data)
    ELSE
    LET macd_data == MACD(data, cfg.macd_fast, cfg.macd_slow, cfg.macd_signal)
        current_rsi == ILoc(RSI(data, cfg.rsi_period), 1)
        current_macd == ILoc(macd_data.macd, 1)
        current_signal == ILoc(macd_data.signal, 1)
        current_price == ILoc(data, 1)
        buy_now == FLt(current_rsi, cfg.rsi_oversold)
                   /\ FLt(current_signal, current_macd)
        sell_now == FLt(cfg.rsi_overbought, current_rsi)
                    /\ FLt(current_macd, current_signal)
    IN  IF (buy_now \/ sell_now) /\ Len(data) < 2 THEN IndexError
        ELSE IF buy_now /\ FLe(ILoc(macd_data.macd, 2), ILoc(macd_data.signal, 2))
        THEN TradingSignal("buy",
                 FMin(FDiv(FSub(cfg.rsi_oversold, current_rsi), RInt(30)), One),
                 current_price, "rsi_oversold_macd_golden_cross")
        ELSE IF sell_now /\ FLe(ILoc(macd_data.signal, 2), ILoc(macd_data.macd, 2))
        THEN TradingSignal("sell",
                 FMin(FDiv(FSub(current_rsi, cfg.rsi_overbought), RInt(30)), One),
                 current_price, "rsi_overbought_macd_death_cross")
        ELSE TradingSignal("hold", Zero, current_price, "no_clear_signal")

\* BollingerBandsStrategy.generate_signal
BollingerBandsStrategy(cfg, data) ==
    IF Len(data) < cfg.bollinger_period THEN InsufficientData(data)
    ELSE
    LET bb_data == BollingerBands(data, cfg.bollinger_period, cfg.bollinger_std)
        current_price == ILoc(data, 1)
        upper_band == ILoc(bb_data.upper, 1)
        lower_band == ILoc(bb_data.lower, 1)
    IN  IF FLe(current_price, lower_band)
        THEN TradingSignal("buy",
                 FMin(FDiv(FSub(lower_band, current_price),
                           FSub(upper_band, lower_band)), One),
                 current_price, "price_at_lower_band")
        ELSE IF FLe(upper_band, current_price)
        THEN TradingSignal("sell",
                 FMin(FDiv(FSub(current_price, upper_band),
                           FSub(upper_band, lower_band)), One),
                 current_price, "price_at_upper_band")
        ELSE TradingSignal("hold", Zero, current_price, "price_inside_bands")

\* MovingAverageStrategy.generate_signal; ma_short.iloc[-2] of a one-candle
\* history raises IndexError
MovingAverageStrategy(cfg, data) ==
    IF Len(data) < cfg.ma_long THEN InsufficientData(data)
    ELSE IF Len(data) < 2 THEN IndexError
    ELSE
    LET ma_short == MovingAverage(data, cfg.ma_short)
        ma_long == MovingAverage(data, cfg.ma_long)
        current_price == ILoc(data, 1)
        current_ma_short == ILoc(ma_short, 1)
        current_ma_long == ILoc(ma_long, 1)
        prev_ma_short == ILoc(ma_short, 2)
        prev_ma_long == ILoc(ma_long, 2)
        strength == FDiv(FAbs(FSub(current_ma_short, current_ma_long)),
                         current_ma_long)
    IN  IF FLt(current_ma_long, current_ma_short) /\ FLe(prev_ma_short, prev_ma_long)
        THEN TradingSignal("buy", FMin(strength, One), current_price,
                           "short_ma_crossed_above")
        ELSE IF FLt(current_ma_short, current_ma_long)
                /\ FLe(prev_ma_long, prev_ma_short)
        THEN TradingSignal("sell", FMin(strength, One), current_price,
                           "short_ma_crossed_below")
        ELSE TradingSignal("hold", Zero, current_price, "no_crossover")

\* the algorithm section of the configuration with periods short enough for
\* the histories below; the thresholds are the defaults of the code
SmallAlgorithm ==
    [rsi_period |-> 3, rsi_oversold |-> RInt(30), rsi_overbought |-> RInt(70),
     macd_fast |-> 1, macd_slow |-> 2, macd_signal |-> 2,
     bollinger_period |-> 3, bollinger_std |-> RInt(2),
     ma_short |-> 1, ma_long |-> 2]

StrategyConfigs ==
    { SmallAlgorithm,
      [SmallAlgorithm EXCEPT !.rsi_oversold = RInt(40), !.rsi_overbought = RInt(60),
                             !.bollinger_std = R(1, 2), !.ma_short = 2,
                             !.ma_long = 3],
      [SmallAlgorithm EXCEPT !.rsi_period = 2, !.macd_slow = 3,
                             !.bollinger_std = One, !.ma_long = 3] }

Closes == {RInt(1), RInt(2), RInt(3), RInt(4)}
Histories == UNION {[1..n -> Closes] : n \in 0..MaxHistory}

InitStrategy ==
    /\ config \in StrategyConfigs
    /\ trading_enabled = TRUE
    /\ BotInit

\* a result depends on the configuration and the history only, so that
\* the first call of a behaviour stands for every call
FirstCall == last = NoOp

StrategyUnchanged ==
    /\ UNCHANGED <<config, rm, today>>
    /\ BotUnchanged

\* the active strategy is rsi_macd and generate_signal is called
RsiMacdSignal ==
    \E data \in Histories :
        /\ FirstCall
        /\ last' = Op("generate_signal", "", "", "rsi_macd", <<data>>,
                      RSIMACDStrategy(config, data))
        /\ StrategyUnchanged

\* the active strategy is bollinger; the histories are those whose windows
\* have a rational standard deviation
BollingerSignal ==
    \E data \in Histories :
        /\ FirstCall
        /\ \A t \in config.bollinger_period..Len(data) :
              HasRationalRoot(WindowVariance(data, config.bollinger_period, t))
        /\ last' = Op("generate_signal", "", "", "bollinger", <<data>>,
                      BollingerBandsStrategy(config, data))
        /\ StrategyUnchanged

\* the active strategy is moving_average
MovingAverageSignal ==
    \E data \in Histories :
        /\ FirstCall
        /\ last' = Op("generate_signal", "", "", "moving_average", <<data>>,
                      MovingAverageStrategy(config, data))
        /\ StrategyUnchanged

\* RSI.calculate on a history
RsiCalculate ==
    \E data \in Histories :
        /\ FirstCall
        /\ last' = Op("RSI.calculate", "", "", "", <<data>>,
                      RSI(data, config.rsi_period))
        /\ StrategyUnchanged

NextStrategy ==
    \/ RsiMacdSignal
    \/ BollingerSignal
    \/ MovingAverageSignal
    \/ RsiCalculate

\* the strategies as pure functions of the configuration and the history
SpecStrategy == InitStrategy /\ [][NextStrategy]_vars

(***************************************************************************)
(* Claims about the strategies                                             *)
(***************************************************************************)
SignalCall(variant) == last.op = "generate_signal" /\ last.by = variant
History == last.args[1]

\* the history length below which a variant is specified to hold
RequiredLength(variant) ==
    CASE variant = "rsi_macd" -> Max2(config.macd_slow, config.rsi_period) + 1
      [] variant = "bollinger" -> config.bollinger_period
      [] variant = "moving_average" -> config.ma_long + 1

\* C26: every strategy variant answers a history shorter than its required
\* length (an empty one included) with a Hold signal whose reason is the
\* lack of data, and does not raise
C26_ShortHistoryHolds ==
    \A variant \in {"rsi_macd", "bollinger", "moving_average"} :
        (SignalCall(variant) /\ Len(History) < RequiredLength(variant)) =>
            /\ last.result.signal = "hold"
            /\ last.result.reason = "insufficient_data"

\* C27: the strength of every signal a strategy variant returns is a number
\* between 0 and 1
C27_StrengthWithinUnitInterval ==
    (last.op = "generate_signal" /\ last.result.signal # Raise) =>
        /\ IsFinite(last.result.strength)
        /\ RLe(Zero, last.result.strength)
        /\ RLe(last.result.strength, One)

\* the indicator values RSIMACDStrategy.generate_signal reads
CurrentRsi == ILoc(RSI(History, config.rsi_period), 1)
MacdData ==
    MACD(History, config.macd_fast, config.macd_slow, config.macd_signal)
CrossedAbove ==
    /\ FLe(ILoc(MacdData.macd, 2), ILoc(MacdData.signal, 2))
    /\ FLt(ILoc(MacdData.signal, 1), ILoc(MacdData.macd, 1))
CrossedBelow ==
    /\ FLe(ILoc(MacdData.signal, 2), ILoc(MacdData.macd, 2))
    /\ FLt(ILoc(MacdData.macd, 1), ILoc(MacdData.signal, 1))

\* C28: on a history long enough, the RSI+MACD variant answers Buy exactly
\* when the RSI is below rsi_oversold and the MACD line crossed above the
\* signal line at the last candle (it was at or below it at the candle
\* before), Sell exactly when the RSI is above rsi_overbought and the MACD
\* line crossed below the signal line, and Hold otherwise
C28_RsiMacdEdgeTriggered ==
    (SignalCall("rsi_macd") /\ Len(History) >= RequiredLength("rsi_macd")) =>
        LET buy == FLt(CurrentRsi, config.rsi_oversold) /\ CrossedAbove
            sell == FLt(config.rsi_overbought, CurrentRsi) /\ CrossedBelow
        IN  /\ last.result.signal = "buy" <=> buy
            /\ last.result.signal = "sell" <=> sell
            /\ last.result.signal = "hold" <=> ~buy /\ ~sell

C28_Witness ==
    /\ SignalCall("rsi_macd")
    /\ Len(History) >= RequiredLength("rsi_macd")
    /\ last.result.signal = "buy"

C28_WitnessSell ==
    /\ SignalCall("rsi_macd")
    /\ Len(History) >= RequiredLength("rsi_macd")
    /\ last.result.signal = "sell"

\* the RSI is oversold and the MACD line stays above the signal line
C28_WitnessNoCross ==
    /\ SignalCall("rsi_macd")
    /\ Len(History) >= RequiredLength("rsi_macd")
    /\ FLt(CurrentRsi, config.rsi_oversold)
    /\ FLt(ILoc(MacdData.signal, 1), ILoc(MacdData.macd, 1))
    /\ FLt(ILoc(MacdData.signal, 2), ILoc(MacdData.macd, 2))
    /\ last.result.signal = "hold"

\* C29: the strength of a Buy signal of the RSI+MACD variant is
\* min(1, (rsi_oversold - RSI) / rsi_oversold) for every configured
\* rsi_oversold
C29_BuyStrengthScaledByThreshold ==
    (SignalCall("rsi_macd") /\ last.result.signal = "buy") =>
        last.result.strength =
            FMin(FDiv(FSub(config.rsi_oversold, CurrentRsi), config.rsi_oversold),
                 One)

\* C30: where the average loss over the window is exactly 0, the RSI is 100
C30_RsiWithoutLossIsHundred ==
    last.op = "RSI.calculate" =>
        \A t \in 1..Len(History) :
            Rolling(Losses(History), config.rsi_period)[t] = Zero =>
                last.result[t] = RInt(100)

(***************************************************************************)
(* main.py: the command line.  The module-level TradingBot() is built when *)
(* main.py imports trading_bot, from the configuration as loaded from the  *)
(* file; apply_arguments updates the Config object afterwards.  Here       *)
(* config also carries the keys trading.enabled and symbols of that        *)
(* object, next to those of its risk_management section.                   *)
(***************************************************************************)
CliConfigs ==
    { rc @@ [trading_enabled |-> e, symbols |-> symbols] :
        rc \in BotConfigs, e \in BOOLEAN }

\* --symbol SYMBOL, or "" when the option is absent
SymbolArguments == {"", symbols[1]}

\* TradingBot.__init__ at import time
InitCli ==
    /\ config \in CliConfigs
    /\ trading_enabled = config.trading_enabled
    /\ BotInit

\* TradingBotCLI.apply_arguments, called once before the bot is started:
\* config.update("symbols", [args.symbol]) and
\* config.update("trading.enabled", False)
ApplyArguments ==
    /\ ~started
    /\ last = NoOp
    /\ \E dry_run \in BOOLEAN, symbol \in SymbolArguments :
        /\ config' = [config EXCEPT
                        !.symbols = IF symbol # "" THEN <<symbol>> ELSE @,
                        !.trading_enabled = IF dry_run THEN FALSE ELSE @]
        /\ last' = Op("apply_arguments", symbol, "", "", <<dry_run>>, <<>>)
    /\ UNCHANGED <<rm, today>>
    /\ BotUnchanged

NextCli == ApplyArguments \/ Next

\* the bot as run from the command line
SpecCli == InitCli /\ [][NextCli]_vars

\* C31: when trading.enabled is false in the configuration (--dry-run sets
\* it so) no cycle evaluates entries or submits an entry order, and a cycle
\* evaluates the symbols of the configuration only (--symbol sets them)
C31_DryRunAndSymbolHonoured ==
    \A t \in TaskIds :
        tasks[t].kind = "cycle" =>
            /\ ~config.trading_enabled => StepOf(tasks[t].pc) # 3
            /\ \E i \in 1..Len(config.symbols) : config.symbols[i] = tasks[t].sym

(***************************************************************************)
(* exchange_manager.py: ExchangeManager.initialize_exchanges               *)
(***************************************************************************)
MaxExchanges == 3  \* exchanges enabled in the configuration

\* the names the configuration may enable; ExchangeFactory.create_exchange
\* knows the first two and raises ValueError for any other name
ExchangeNames == {"binance", "okx", "kraken", "bybit"}
Supported == {"binance", "okx"}

\* create_exchange and connect for one exchange: connected, not connected
\* (connect returned False), or an exception
ConnectOutcomes(name) ==
    IF name \in Supported THEN {"ok", "fail", Raise} ELSE {Raise}

\* get_available_exchanges: the enabled exchanges in configuration order
AvailableExchanges ==
    { names \in UNION {[1..n -> ExchangeNames] : n \in 0..MaxExchanges} :
        \A i, j \in 1..Len(names) : names[i] = names[j] => i = j }

\* self.exchanges after the loop, in insertion order
RECURSIVE Connected(_, _)
Connected(names, outcomes) ==
    IF names = <<>> THEN <<>>
    ELSE (IF Head(outcomes) = "ok" THEN <<Head(names)>> ELSE <<>>)
         \o Connected(Tail(names), Tail(outcomes))

\* self.exchanges when the loop stops at the first failure
RECURSIVE ConnectedUntilFailure(_, _)
ConnectedUntilFailure(names, outcomes) ==
    IF names = <<>> \/ Head(outcomes) # "ok" THEN <<>>
    ELSE <<Head(names)>> \o ConnectedUntilFailure(Tail(names), Tail(outcomes))

ExchangesState(exchanges) ==
    [exchanges |-> exchanges,
     active_exchange |-> IF exchanges # <<>> THEN Head(exchanges) ELSE "",
     result |-> exchanges # <<>>]

InitializeAbortsOnFailure(names, outcomes) ==
    ExchangesState(ConnectedUntilFailure(names, outcomes))

\* initialize_exchanges: the exchanges dict, the active exchange ("" for
\* None) and the value returned
initialize_exchanges(names, outcomes) ==
    ExchangesState(Connected(names, outcomes))

InitExchanges ==
    /\ config \in BotConfigs
    /\ trading_enabled = TRUE
    /\ BotInit

InitializeExchanges ==
    /\ FirstCall
    /\ \E names \in AvailableExchanges :
        \E outcomes \in [1..Len(names) -> {"ok", "fail", Raise}] :
            /\ \A i \in 1..Len(names) : outcomes[i] \in ConnectOutcomes(names[i])
            /\ LET res == initialize_exchanges(names, outcomes)
               IN  /\ last' = Op("initialize_exchanges", "", "", "",
                                 <<names, outcomes>>, res)
                   /\ active_exchange' = res.result
    /\ UNCHANGED <<config, rm, today, is_running, trading_enabled,
                   active_strategy, tasks, started, nOrders>>

NextExchanges == InitializeExchanges

SpecExchanges == InitExchanges /\ [][NextExchanges]_vars

\* C32: initialize_exchanges returns True iff at least one enabled exchange
\* connected; an exchange that fails to connect or raises is left out and
\* the exchanges after it are still tried; the active exchange is the first
\* one that connected, and is unset when none did
C32_InitializationIsolatesFailures ==
    last.op = "initialize_exchanges" =>
        LET names == last.args[1]
            outcomes == last.args[2]
            ok == {i \in 1..Len(names) : outcomes[i] = "ok"}
            res == last.result
        IN  /\ res.result <=> ok # {}
            /\ {res.exchanges[i] : i \in 1..Len(res.exchanges)}
                  = {names[i] : i \in ok}
            /\ ok # {} =>
                  res.active_exchange
                      = names[CHOOSE i \in ok : \A j \in ok : i <= j]
            /\ ok = {} => res.active_exchange = ""
            /\ active_exchange <=> res.result

\* the first exchange raised, the second did not connect, the third did
C32_Witness ==
    /\ last.op = "initialize_exchanges"
    /\ Len(last.args[1]) = 3
    /\ last.args[2][1] = Raise
    /\ last.args[2][2] = "fail"
    /\ last.args[2][3] = "ok"
    /\ last.result.active_exchange = last.args[1][3]
    /\ last.result.result

\* no exchange connected
C32_WitnessNone ==
    /\ last.op = "initialize_exchanges"
    /\ last.args[1] # <<>>
    /\ ~last.result.result
    /\ last.result.active_exchange = ""

(***************************************************************************)
(* C33: the trade history is append-only: every step leaves the records    *)
(* already written in place and unchanged, and the history grows by        *)
(* exactly one record in a remove_position call that found a position and  *)
(* by none in any other step                                               *)
(***************************************************************************)
HistoryExtended ==
    /\ Len(rm.trade_history) <= Len(rm'.trade_history)
    /\ SubSeq(rm'.trade_history, 1, Len(rm.trade_history)) = rm.trade_history

SuccessfulClose == last'.op = "remove_position" /\ last'.result # <<>>

C33_HistoryAppendOnly ==
    [][ /\ HistoryExtended
        /\ Len(rm'.trade_history) =
              Len(rm.trade_history) + (IF SuccessfulClose THEN 1 ELSE 0)
        /\ SuccessfulClose =>
              rm'.trade_history[Len(rm'.trade_history)]
                  = TradeRecord(last'.result[1], today) ]_vars

\* a second record was appended behind an earlier one
C33_Witness ==
    /\ last.op = "remove_position"
    /\ last.result # <<>>
    /\ Len(rm.trade_history) >= 2
    /\ rm.trade_history[Len(rm.trade_history)] = TradeRecord(last.result[1], today)

\* a close of a symbol without a position after a record was written
C33_WitnessNoPosition ==
    /\ last.op = "remove_position"
    /\ last.result = <<>>
    /\ rm.trade_history # <<>>

(***************************************************************************)
(* SpecTight: the bot within one calendar day under limits that a second   *)
(* entry reaches.                                                          *)
(***************************************************************************)
TightConfigs ==
    { [DefaultRisk EXCEPT !.max_daily_trades = d, !.max_concurrent_positions = c] :
        d \in {1, 2}, c \in {1, 2} } \ BotConfigs

InitTight ==
    /\ config \in TightConfigs
    /\ trading_enabled \in BOOLEAN
    /\ BotInit

SpecTight == InitTight /\ [][Next]_vars

\* C34: in every reachable state the number of live positions is at most
\* max_concurrent_positions and daily_trades is at most max_daily_trades,
\* also when cycles overlap or a manual trade runs between a cycle's risk
\* check and its order acknowledgment
C34_LimitsHoldUnderInterleaving ==
    /\ Len(rm.positions) <= config.max_concurrent_positions
    /\ rm.daily_trades <= config.max_daily_trades

\* a manual trade was acknowledged between a cycle's risk check and its
\* order acknowledgment: the entry of the cycle keeps the position limit
C34_CycleEntryWithinLimit ==
    ~ /\ last.op = "entry_ack"
      /\ last.by = "cycle"
      /\ Len(rm.positions) > config.max_concurrent_positions
      /\ \E i \in 1..Len(rm.positions) : rm.positions[i].symbol # last.symbol

\* C35: the number of live positions plus the number of TradeRecords equals
\* the number of add_position calls made for acknowledged entry orders
\* (within one day daily_trades counts them): no opened position disappears
\* without a TradeRecord
C35_PositionsConserved ==
    Len(rm.positions) + Len(rm.trade_history) = rm.daily_trades

(***************************************************************************)
(* SpecLatch: the bot under a drawdown limit that one losing position      *)
(* exceeds, across a change of the calendar date.                          *)
(***************************************************************************)
LatchConfigs ==
    { [DefaultRisk EXCEPT !.max_daily_trades = 2,
                          !.max_concurrent_positions = 2,
                          !.max_drawdown = R(1, 200)] }

InitLatch ==
    /\ config \in LatchConfigs
    /\ trading_enabled = TRUE
    /\ BotInit

\* the bot while the calendar date advances
NextDays == Next \/ AdvanceDay

SpecLatch == InitLatch /\ [][NextDays]_vars

\* the running max_drawdown of r exceeds the configured limit
Latched(r) == RLt(config.max_drawdown, r.max_drawdown)

\* an entry order was acknowledged and add_position was called
PositionOpened == last'.op = "entry_ack" /\ EntryAccepted(last'.status)

\* C36: once max_drawdown exceeds the configured limit it stays above it
\* (the daily reset included), every later check_risk_limits call denies,
\* and no cycle or manual trade opens a position any more
C36_DrawdownLatched ==
    [][ Latched(rm) =>
          /\ Latched(rm')
          /\ \A symbol \in SymbolSet :
                ~check_risk_limits(config, reset_daily_metrics(rm', today'),
                                   symbol).allowed
          /\ ~PositionOpened ]_vars

\* the part of C36 about check_risk_limits alone
C36_ChecksDenyOnceLatched ==
    [][ Latched(rm) =>
          /\ Latched(rm')
          /\ \A symbol \in SymbolSet :
                ~check_risk_limits(config, reset_daily_metrics(rm', today'),
                                   symbol).allowed ]_vars

C36_WitnessLatched == Latched(rm) /\ rm.last_reset_date > 0

\* C37: while the trade history is empty calculate_risk_metrics reports
\* win rate 0 and risk level Critical, whatever the drawdown and the number
\* of daily trades; a freshly constructed RiskManager is never Low
C37_EmptyHistoryIsCritical ==
    (last.op = "calculate_risk_metrics" /\ rm.trade_history = <<>>) =>
        /\ last.result.win_rate = Zero
        /\ last.result.risk_level = "critical"

\* the metrics of a RiskManager on which nothing else was called
C37_Witness ==
    /\ last.op = "calculate_risk_metrics"
    /\ rm.trade_history = <<>>
    /\ rm.positions = <<>>
    /\ rm.daily_trades = 0
    /\ rm.max_drawdown = Zero
    /\ last.result.risk_level = "critical"

\* the metrics with positions opened, still before the first close
C37_WitnessOpened ==
    /\ last.op = "calculate_risk_metrics"
    /\ rm.trade_history = <<>>
    /\ rm.daily_trades = 2
    /\ RLt(Zero, rm.max_drawdown)
    /\ last.result.risk_level = "critical"

C38_WitnessEqual ==
    /\ last.op = "check_risk_limits"
    /\ config.max_drawdown = config.emergency_stop_loss
    /\ EmergencyHit
    /\ last.result.reason = "max_drawdown"

(***************************************************************************)
(* SpecDays: the bot under the default limits across a change of the       *)
(* calendar date.                                                          *)
(***************************************************************************)
InitDays ==
    /\ config \in BotConfigs
    /\ trading_enabled = TRUE
    /\ BotInit

SpecDays == InitDays /\ [][NextDays]_vars

\* the sum of pnl over the TradeRecords closed on the date of last_reset_date
ClosedToday(r) ==
    SelectSeq(r.trade_history, LAMBDA rec : rec.exit_time = r.last_reset_date)
PnlClosedToday(r) ==
    RSum([i \in 1..Len(ClosedToday(r)) |-> ClosedToday(r)[i].pnl])

\* C39: when a decision cycle has completed, daily_pnl equals the sum of pnl
\* of the TradeRecords closed on the current date, also for a position that
\* the exit step of the first cycle after a date change closed
C39_DailyPnlIsTodaysClosedPnl ==
    (last.by = "cycle" /\ last.result = Idle) =>
        rm.daily_pnl = PnlClosedToday(rm)

C40_WitnessFailedStart ==
    /\ last.op = "stop"
    /\ last.args = <<FALSE>>
    /\ ~active_strategy
    /\ rm = RiskManagerInit(0)


====
